---- MODULE Spec2Model ----
(***************************************************************************)
(* Model of the Telegram -> imgur -> IRC image proxy.                      *)
(*                                                                         *)
(*   - the image delivery pipeline  (handlers/image.py, models/image.py)   *)
(*   - the auth challenge registry  (bots/irc.py)                          *)
(*   - the authentication handshake (handlers/auth.py, models/user.py)     *)
(*                                                                         *)
(* Python's None is the string NoneV; a missing ImageInfo is NoImg.        *)
(* ImageInfo's columns time and ext are never read by a branch of the      *)
(* pipeline and are left out of the record.                                *)
(***************************************************************************)
EXTENDS Integers, Sequences, FiniteSets, TLC

VARIABLES
    conf,        \* storage.delete_images / storage.database of config.yaml
    name_map,    \* UserDatabase.name_map : chat-user-id -> display name
    blacklist,   \* UserDatabase.blacklist
    images,      \* the sqlite table images, keyed by f_id
    disk,        \* local files that exist (os.path.exists)
    ppc,         \* position of each ImageHandler thread
    event,       \* the ImageInfo each thread was constructed with
    img,         \* ImageHandler.img, the working record of each thread
    db_img,      \* run_'s local db_img
    plog,        \* what the current run of each thread did, in order
    announced,   \* per f_id: lines posted on IRC by post_to_irc
    delivered,   \* per f_id: 'Image delivered' replies
    runs,        \* image events dispatched so far
    auth_map,    \* IRCBot.auth_map : authcode -> handshake whose do_authentication is the callback
    lock,        \* holder of IRCBot._auth_map_lock
    hpc,         \* position of each AuthHandler thread
    message,     \* AuthHandler.message : sender.id and chat.id of the /auth text
    authcode,    \* run_'s (and new_auth_callback's) local authcode
    authenticated, \* AuthHandler.authenticated
    start_time,  \* run_'s local start_time
    now,         \* time.time(), in units of the 0.5 s sleep
    ipc,         \* position of the IRC thread inside on_msg_command
    chanmsg,     \* the channel message being handled: nick and the words after the bot's nick
    cb,          \* on_msg_command's local cb
    hlog,        \* per handshake: counts of callback invocations and of messages sent for it
    irc_out,     \* what on_msg_command did with the current channel message
    msgs,        \* channel messages handled so far
    mpc,         \* position of the main thread in main()
    exit_code,   \* what main() returned; -1 while it has not returned
    connected,   \* IRCBot._connected
    backlog,     \* main's local backlog, the list get_unfinished_images returned
    replayed,    \* f_ids main has handed to on_image from the backlog, in order
    wait_start,  \* wait_connected's local start
    ufile,       \* the JSON document at UserDatabase.path; NoFile if there is none
    ucached,     \* UserDatabase._user_cache is set (name_map and blacklist are its entries)
    ulog,        \* the last call of a UserDatabase method and what it raised
    offset,      \* TelegramImageBot._offset: <<>> for None, <<n>> for the number n
    batch,       \* updates of the current get_updates response that handle_updates has not reached
    handled,     \* update_ids handle_updates has handled
    polls,       \* get_updates calls made by poll_loop, and the offset and outcome of the last
    admin,       \* conf.telegram.admin
    text_out     \* what on_text did with the last text message

imageVars == <<conf, images, disk, ppc, event, img, db_img, plog, announced, delivered, runs>>
userVars  == <<name_map, blacklist>>
authVars  == <<auth_map, lock, hpc, message, authcode, authenticated, start_time, now,
               ipc, chanmsg, cb, hlog, irc_out, msgs>>
mainVars  == <<mpc, exit_code, connected, backlog, replayed, wait_start>>
storeVars == <<ufile, ucached, ulog>>
pollVars  == <<offset, batch, handled, polls, admin, text_out>>
vars == <<imageVars, userVars, authVars, mainVars, storeVars, pollVars>>

NoneV == "None"

\* ------------------------------------------------------------------ bounds
MaxRuns == 3          \* image events dispatched in one behaviour
MaxTime == 2          \* the clock stops advancing here
MaxMsgs == 2          \* channel messages handled in one behaviour
AuthTimeout == 1      \* conf.irc.auth_timeout, in clock ticks
MaxCalls == 3         \* calls of the registry's methods by one thread
MaxRestarts == 1      \* restarts of the process in one behaviour
MaxPolled == 1        \* updates the poll loop dispatches after a startup
MaxUpdateId == 3      \* update_ids the server hands out
MaxPolls == 3         \* get_updates calls of poll_loop in one behaviour
IrcTimeout == 1       \* conf.irc.timeout or 7, in clock ticks

\* ------------------------------------------------------------------ inputs
FileIds   == {"f1", "f2"}
ChatIds   == {1, 2}
Captions  == {NoneV, "look"}
Names     == {"alice", "bob"}
PUnits    == {1}
Handshakes == {"h1", "h2"}
IrcThread == "irc"
\* the order in which AuthHandler threads are created
Slot(h) == IF h = "h1" THEN 1 ELSE 2
Codes     == {"AbC123XyZ9==", "Zz9yX321cBa="}
Nicks     == {"bob"}
AltNames  == {"carol"}
\* the /auth texts that arrive: one sent in the sender's private chat (chat.id =
\* sender.id), one sent by another user in that same chat
Requests  == {[sender |-> 1, chat |-> 1], [sender |-> 2, chat |-> 1]}

\* name a chat user registered under before the run
NameOf(c) == IF c = 1 THEN "alice" ELSE "bob"

\* ------------------------------------------------------------------ ImageInfo
NoImg == [f_id |-> NoneV, username |-> NoneV, c_id |-> 0, m_id |-> 0, caption |-> NoneV,
          remote_path |-> NoneV, local_path |-> NoneV, url |-> NoneV, finished |-> FALSE]

\* the record handle_updates builds for a photo / document message
NewImageInfo(f, c, m, cap) ==
    [f_id |-> f, username |-> NoneV, c_id |-> c, m_id |-> m, caption |-> cap,
     remote_path |-> NoneV, local_path |-> NoneV, url |-> NoneV, finished |-> FALSE]

\* file_info.file_path that get_file reports for a file id
FilePath(f) == IF f = "f1" THEN "photos/f1.jpg" ELSE "photos/f2.jpg"

\* download_file's out_file: directory joined with file_path, "/" replaced by "_"
OutFile(path) == IF path = "photos/f1.jpg" THEN "/tmp/telegram/photos_f1.jpg"
                 ELSE "/tmp/telegram/photos_f2.jpg"

\* data['link'] of the imgur upload of a local file
Link(path) == IF path = "/tmp/telegram/photos_f1.jpg" THEN "http://i.imgur.com/f1.jpg"
              ELSE "http://i.imgur.com/f2.jpg"

\* ------------------------------------------------------------------ ImageDatabase
find_image(i) == IF i.f_id \in DOMAIN images THEN images[i.f_id] ELSE NoImg

get_all_images == {images[f] : f \in DOMAIN images}

\* SELECT * FROM images WHERE finished = 0
get_unfinished_images == {images[f] : f \in {g \in DOMAIN images : ~images[g].finished}}

\* INSERT INTO images: the primary key f_id rejects a second row
insert_ok(i) == i.f_id \notin DOMAIN images

insert_image_skipped(i) == images

insert_image(i) == [f \in DOMAIN images \cup {i.f_id} |-> IF f = i.f_id THEN i ELSE images[f]]

update_image_unfinished(i) ==
    [f \in DOMAIN images |->
        IF f = i.f_id
        THEN [images[f] EXCEPT !.remote_path = i.remote_path, !.local_path = i.local_path,
                               !.url = i.url, !.finished = FALSE]
        ELSE images[f]]

\* UPDATE images SET remote_path, local_path, url, finished WHERE f_id
update_image(i) ==
    [f \in DOMAIN images |->
        IF f = i.f_id
        THEN [images[f] EXCEPT !.remote_path = i.remote_path, !.local_path = i.local_path,
                               !.url = i.url, !.finished = i.finished]
        ELSE images[f]]

\* ------------------------------------------------------------------ ImageHandler
Ev(kind, text, c, m) == [ev |-> kind, text |-> text, c |-> c, m |-> m]

Did(u, kind) == Append(plog[u], Ev(kind, NoneV, 0, 0))

reply_swapped(i, text) == Ev("reply", text, i.m_id, i.c_id)

\* ImageHandler.reply: addressed with the working record's c_id and m_id
reply(i, text) == Ev("reply", text, i.c_id, i.m_id)

is_blacklisted_unless_named(i) == i.c_id \in blacklist /\ i.c_id \notin DOMAIN name_map

\* the two authorization tests of run_
is_blacklisted(i) == i.c_id \in blacklist

is_unauthorized(i) == i.c_id \notin DOMAIN name_map

always_download(i) == TRUE

never_download(i) == FALSE

\* the download test of run_
needs_download(i) == i.local_path = NoneV \/ i.local_path \notin disk

\* the upload test of run_
needs_upload(i) == i.url = NoneV

\* on_image: a photo or document arrives and an ImageHandler thread is started
OnImage(u, f, c, cap) ==
    /\ ppc[u] \in {"idle", "done"}
    /\ runs < MaxRuns
    /\ runs' = runs + 1
    /\ event' = [event EXCEPT ![u] = NewImageInfo(f, c, runs + 1, cap)]
    /\ img' = [img EXCEPT ![u] = NewImageInfo(f, c, runs + 1, cap)]
    /\ db_img' = [db_img EXCEPT ![u] = NoImg]
    /\ plog' = [plog EXCEPT ![u] = <<>>]
    /\ ppc' = [ppc EXCEPT ![u] = "authorize"]
    /\ UNCHANGED <<conf, images, disk, announced, delivered, userVars, mainVars, pollVars, storeVars, authVars>>

\* run_: authorization, username, chat action
Authorize(u) ==
    /\ ppc[u] = "authorize"
    /\ IF is_blacklisted(img[u])
       THEN /\ ppc' = [ppc EXCEPT ![u] = "done"]
            /\ UNCHANGED <<img, plog>>
       ELSE IF is_unauthorized(img[u])
       THEN /\ plog' = [plog EXCEPT ![u] = Append(@, reply(img[u], "need_auth"))]
            /\ ppc' = [ppc EXCEPT ![u] = "done"]
            /\ UNCHANGED img
       ELSE /\ img' = [img EXCEPT ![u].username = name_map[img[u].c_id]]
            /\ plog' = [plog EXCEPT ![u] = Did(u, "chat_action")]
            /\ ppc' = [ppc EXCEPT ![u] = "resume"]
    /\ UNCHANGED <<event, conf, images, disk, db_img, announced, delivered, runs, userVars, mainVars, pollVars, storeVars, authVars>>

\* run_: open the database and take the persisted record, if any, as working record
Resume(u) ==
    /\ ppc[u] = "resume"
    /\ IF conf.database
       THEN /\ db_img' = [db_img EXCEPT ![u] = find_image(img[u])]
            /\ img' = [img EXCEPT ![u] = IF find_image(img[u]) # NoImg
                                         THEN find_image(img[u]) ELSE @]
       ELSE UNCHANGED <<db_img, img>>
    /\ ppc' = [ppc EXCEPT ![u] = "download"]
    /\ UNCHANGED <<event, conf, images, disk, plog, announced, delivered, runs, userVars, mainVars, pollVars, storeVars, authVars>>

\* run_ / download_file: the download test, get_file, and the path fields
GetFile(u) ==
    /\ ppc[u] = "download"
    /\ IF needs_download(img[u])
       THEN \E ok \in BOOLEAN :
              IF ok
              THEN /\ img' = [img EXCEPT ![u].remote_path = FilePath(img[u].f_id),
                                         ![u].local_path = OutFile(FilePath(img[u].f_id))]
                   /\ plog' = [plog EXCEPT ![u] = Did(u, "get_file")]
                   /\ ppc' = [ppc EXCEPT ![u] = "transfer"]
              ELSE /\ plog' = [plog EXCEPT ![u] =
                                 Did(u, "get_file") \o <<reply(img[u], "err_file_info")>>]
                   /\ ppc' = [ppc EXCEPT ![u] = "finally"]
                   /\ UNCHANGED img
       ELSE /\ ppc' = [ppc EXCEPT ![u] = "upload"]
            /\ UNCHANGED <<img, plog>>
    /\ UNCHANGED <<event, conf, images, disk, db_img, announced, delivered, runs, userVars, mainVars, pollVars, storeVars, authVars>>

\* download_file: the transfer to local_path
Transfer(u) ==
    /\ ppc[u] = "transfer"
    /\ \E ok \in BOOLEAN :
         IF ok
         THEN /\ disk' = disk \cup {img[u].local_path}
              /\ plog' = [plog EXCEPT ![u] = Did(u, "download")]
              /\ ppc' = [ppc EXCEPT ![u] = "upload"]
         ELSE /\ plog' = [plog EXCEPT ![u] =
                            Did(u, "download") \o <<reply(img[u], "err_download")>>]
              /\ ppc' = [ppc EXCEPT ![u] = "finally"]
              /\ UNCHANGED disk
    /\ UNCHANGED <<event, conf, images, img, db_img, announced, delivered, runs, userVars, mainVars, pollVars, storeVars, authVars>>

\* run_ / upload_file: the upload test and the imgur upload; an ImgurClientError is
\* replied to and raised again, and run_'s except clause replies a second time
Upload(u) ==
    /\ ppc[u] = "upload"
    /\ IF needs_upload(img[u])
       THEN \E res \in {"ok", "ImgurClientError", "Exception"} :
              IF res = "ok"
              THEN /\ img' = [img EXCEPT ![u].url = Link(img[u].local_path)]
                   /\ plog' = [plog EXCEPT ![u] = Did(u, "upload")]
                   /\ ppc' = [ppc EXCEPT ![u] = "announce"]
              ELSE /\ plog' = [plog EXCEPT ![u] =
                         Did(u, "upload")
                         \o (IF res = "ImgurClientError"
                             THEN <<reply(img[u], "err_upload")>> ELSE <<>>)
                         \o <<reply(img[u], "oops")>>]
                   /\ ppc' = [ppc EXCEPT ![u] = "finally"]
                   /\ UNCHANGED img
       ELSE /\ ppc' = [ppc EXCEPT ![u] = "announce"]
            /\ UNCHANGED <<img, plog>>
    /\ UNCHANGED <<event, conf, images, disk, db_img, announced, delivered, runs, userVars, mainVars, pollVars, storeVars, authVars>>

post_to_irc_no_caption(i) == "<" \o i.username \o "> " \o i.url

\* post_to_irc: the line "<username> url", followed by " caption" if there is a caption
post_to_irc(i) ==
    "<" \o i.username \o "> " \o i.url \o (IF i.caption # NoneV THEN " " \o i.caption ELSE "")

\* run_ calls post_to_irc: the line is sent to the channel
Announce(u) ==
    /\ ppc[u] = "announce"
    /\ plog' = [plog EXCEPT ![u] = Append(@, Ev("announce", post_to_irc(img[u]), 0, 0))]
    /\ announced' = [announced EXCEPT ![img[u].f_id] = @ + 1]
    /\ ppc' = [ppc EXCEPT ![u] = "finish"]
    /\ UNCHANGED <<event, conf, images, disk, img, db_img, delivered, runs, userVars, mainVars, pollVars, storeVars, authVars>>

\* run_: the delivery reply, finished = True, and the cleanup; os.remove of a file
\* that is not there raises into run_'s except clause
Finish(u) ==
    /\ ppc[u] = "finish"
    /\ delivered' = [delivered EXCEPT ![img[u].f_id] = @ + 1]
    /\ IF ~conf.delete_images
       THEN /\ img' = [img EXCEPT ![u].finished = TRUE]
            /\ plog' = [plog EXCEPT ![u] = Append(@, reply(img[u], "Image delivered. Uploaded to: " \o img[u].url))]
            /\ UNCHANGED disk
       ELSE IF img[u].local_path \in disk
       THEN /\ img' = [img EXCEPT ![u].finished = TRUE, ![u].local_path = NoneV]
            /\ plog' = [plog EXCEPT ![u] =
                          Append(@, reply(img[u], "Image delivered. Uploaded to: " \o img[u].url)) \o <<Ev("remove", NoneV, 0, 0)>>]
            /\ disk' = disk \ {img[u].local_path}
       ELSE /\ img' = [img EXCEPT ![u].finished = TRUE]
            /\ plog' = [plog EXCEPT ![u] =
                          Append(@, reply(img[u], "Image delivered. Uploaded to: " \o img[u].url)) \o <<reply(img[u], "oops")>>]
            /\ UNCHANGED disk
    /\ ppc' = [ppc EXCEPT ![u] = "finally"]
    /\ UNCHANGED <<event, conf, images, db_img, announced, runs, userVars, mainVars, pollVars, storeVars, authVars>>

\* run_'s finally clause: insert a new record, update a changed one
Persist(u) ==
    /\ ppc[u] = "finally"
    /\ IF ~conf.database
       THEN UNCHANGED <<images, plog>>
       ELSE IF db_img[u] = NoImg
       THEN IF insert_ok(img[u])
            THEN /\ images' = insert_image(img[u])
                 /\ plog' = [plog EXCEPT ![u] = Did(u, "insert")]
            ELSE /\ plog' = [plog EXCEPT ![u] = Did(u, "IntegrityError")]
                 /\ UNCHANGED images
       ELSE IF img[u] # db_img[u]
       THEN /\ images' = update_image(img[u])
            /\ plog' = [plog EXCEPT ![u] = Did(u, "update")]
       ELSE UNCHANGED <<images, plog>>
    /\ ppc' = [ppc EXCEPT ![u] = "done"]
    /\ UNCHANGED <<event, conf, disk, img, db_img, announced, delivered, runs, userVars, mainVars, pollVars, storeVars, authVars>>

\* ------------------------------------------------------------------ ImageHandler, failing calls
\* ImageHandler.reply whose send_message did not reach the chat
send_failed(i, text) == Ev("send_failed", text, i.c_id, i.m_id)

\* an exception that leaves run_ and is logged by BaseHandler.run
uncaught(what) == Ev("uncaught", what, 0, 0)

\* run_: the sender passes both authorization tests and send_chat_action raises; the
\* call stands before the try statement, the exception leaves run_
AuthorizeChatActionRaises(u) ==
    /\ ppc[u] = "authorize"
    /\ ~is_blacklisted(img[u])
    /\ ~is_unauthorized(img[u])
    /\ img' = [img EXCEPT ![u].username = name_map[img[u].c_id]]
    /\ plog' = [plog EXCEPT ![u] = Append(@, uncaught("send_chat_action"))]
    /\ ppc' = [ppc EXCEPT ![u] = "done"]
    /\ UNCHANGED <<event, conf, images, disk, db_img, announced, delivered, runs, userVars, mainVars, pollVars, storeVars, authVars>>

\* run_: ImageDatabase(...) raises (sqlite3.connect or create_table); the call stands
\* before the try statement, the exception leaves run_
OpenStoreRaises(u) ==
    /\ ppc[u] = "resume"
    /\ conf.database
    /\ plog' = [plog EXCEPT ![u] = Append(@, uncaught("ImageDatabase"))]
    /\ ppc' = [ppc EXCEPT ![u] = "done"]
    /\ UNCHANGED <<event, conf, images, disk, img, db_img, announced, delivered, runs, userVars, mainVars, pollVars, storeVars, authVars>>

\* run_ calls post_to_irc and irc_bot.msg raises: the except clause replies
AnnounceRaises(u) ==
    /\ ppc[u] = "announce"
    /\ plog' = [plog EXCEPT ![u] = Did(u, "announce_failed") \o <<reply(img[u], "oops")>>]
    /\ ppc' = [ppc EXCEPT ![u] = "finally"]
    /\ UNCHANGED <<event, conf, images, disk, img, db_img, announced, delivered, runs, userVars, mainVars, pollVars, storeVars, authVars>>

\* run_: the delivery reply is not sent. Either send_message raises ("raises": the
\* except clause replies, finished stays unset), or the request fails in the library's
\* own thread ("lost": reply neither waits for the result nor passes on_error, and
\* run_ goes on to finished = True and the cleanup)
FinishUnacknowledged(u) ==
    /\ ppc[u] = "finish"
    /\ \E outcome \in {"raises", "lost"} :
         LET failed == send_failed(img[u], "Image delivered. Uploaded to: " \o img[u].url)
         IN IF outcome = "raises"
            THEN /\ plog' = [plog EXCEPT ![u] = Append(@, failed) \o <<reply(img[u], "oops")>>]
                 /\ UNCHANGED <<img, disk>>
            ELSE IF ~conf.delete_images
            THEN /\ img' = [img EXCEPT ![u].finished = TRUE]
                 /\ plog' = [plog EXCEPT ![u] = Append(@, failed)]
                 /\ UNCHANGED disk
            ELSE IF img[u].local_path \in disk
            THEN /\ img' = [img EXCEPT ![u].finished = TRUE, ![u].local_path = NoneV]
                 /\ plog' = [plog EXCEPT ![u] = Append(@, failed) \o <<Ev("remove", NoneV, 0, 0)>>]
                 /\ disk' = disk \ {img[u].local_path}
            ELSE /\ img' = [img EXCEPT ![u].finished = TRUE]
                 /\ plog' = [plog EXCEPT ![u] = Append(@, failed) \o <<reply(img[u], "oops")>>]
                 /\ UNCHANGED disk
    /\ ppc' = [ppc EXCEPT ![u] = "finally"]
    /\ UNCHANGED <<event, conf, images, db_img, announced, delivered, runs, userVars, mainVars, pollVars, storeVars, authVars>>

\* ------------------------------------------------------------------ UserDatabase
\* json writes the integer keys of name_map as strings
str(c) == IF c = 1 THEN "1" ELSE "2"

int(k) == IF k = "1" THEN 1 ELSE 2

NoFile == [exists |-> FALSE, name_map |-> <<>>, blacklist |-> {}]

\* json.dump(self._user_cache, f): the document {"name_map": {"<id>": name, ...},
\* "blacklist": [id, ...]}; the array is kept as the set of its elements
json_dump(nm, bl) ==
    [exists |-> TRUE,
     name_map |-> [k \in {str(c) : c \in DOMAIN nm} |-> nm[int(k)]],
     blacklist |-> bl]

\* the property user_cache, which every method goes through: with no cache set and a
\* file at path it json.loads the document and calls .items() on its "blacklist", a
\* list, which raises AttributeError; with no file it sets the empty cache
user_cache_raises == IF ~ucached /\ ufile.exists THEN "AttributeError" ELSE NoneV

NoULog == [op |-> NoneV, id |-> 0, raised |-> NoneV, calls |-> 0, restarts |-> 0,
           before |-> [name_map |-> <<>>, blacklist |-> {}]]

ULog(op, id_, raised) == [ulog EXCEPT !.op = op, !.id = id_, !.raised = raised, !.calls = @ + 1]

name_map_unchanged(id_, name) == name_map

add_to_name_map_setdefault(id_, name) ==
    IF id_ \in DOMAIN name_map THEN name_map
    ELSE [c \in DOMAIN name_map \cup {id_} |-> IF c = id_ THEN name ELSE name_map[c]]

\* add_to_name_map: name_map[id_] = name
add_to_name_map(id_, name) ==
    [c \in DOMAIN name_map \cup {id_} |-> IF c = id_ THEN name ELSE name_map[c]]

\* a call of a UserDatabase method may be made
MayCall == ulog.calls < MaxCalls

\* UserDatabase.name_map read by a caller: user_cache loads on the first access
ReadNameMap ==
    /\ MayCall
    /\ ulog' = ULog("name_map", 0, user_cache_raises)
    /\ ucached' = (ucached \/ user_cache_raises = NoneV)
    /\ UNCHANGED <<name_map, blacklist, ufile, imageVars, authVars, mainVars, pollVars>>

\* UserDatabase.add_to_name_map(id_, name): self.name_map[id_] = name, _write_cache()
AddToNameMap(id_, name) ==
    /\ MayCall
    /\ ulog' = ULog("add_to_name_map", id_, user_cache_raises)
    /\ IF user_cache_raises # NoneV
       THEN UNCHANGED <<name_map, ufile, ucached>>
       ELSE /\ name_map' = add_to_name_map(id_, name)
            /\ ufile' = json_dump(name_map', blacklist)
            /\ ucached' = TRUE
    /\ UNCHANGED <<blacklist, imageVars, authVars, mainVars, pollVars>>

\* UserDatabase.add_to_blacklist(id_): self.name_map.append(id_) - name_map is a dict,
\* which has no append: AttributeError, before the log line and _write_cache
AddToBlacklist(id_) ==
    /\ MayCall
    /\ ulog' = ULog("add_to_blacklist", id_, "AttributeError")
    /\ ucached' = (ucached \/ user_cache_raises = NoneV)
    /\ UNCHANGED <<name_map, blacklist, ufile, imageVars, authVars, mainVars, pollVars>>

\* UserDatabase.remove_from_blacklist(id_): if id_ in self.name_map:
\* self.name_map.remove(id_) - a dict has no remove: AttributeError; else
\* _write_cache() and return True
RemoveFromBlacklist(id_) ==
    /\ MayCall
    /\ IF user_cache_raises # NoneV
       THEN /\ ulog' = ULog("remove_from_blacklist", id_, user_cache_raises)
            /\ UNCHANGED <<ufile, ucached>>
       ELSE IF id_ \in DOMAIN name_map
       THEN /\ ulog' = ULog("remove_from_blacklist", id_, "AttributeError")
            /\ ucached' = TRUE
            /\ UNCHANGED ufile
       ELSE /\ ulog' = ULog("remove_from_blacklist", id_, NoneV)
            /\ ucached' = TRUE
            /\ ufile' = json_dump(name_map, blacklist)
    /\ UNCHANGED <<name_map, blacklist, imageVars, authVars, mainVars, pollVars>>

\* the process ends and is started again: UserDatabase.__init__ sets _user_cache =
\* None, the file stays
Restart ==
    /\ ulog.restarts < MaxRestarts
    /\ ucached
    /\ ulog' = [op |-> NoneV, id |-> 0, raised |-> NoneV, calls |-> 0,
                restarts |-> ulog.restarts + 1,
                before |-> [name_map |-> name_map, blacklist |-> blacklist]]
    /\ ucached' = FALSE
    /\ name_map' = <<>>
    /\ blacklist' = {}
    /\ UNCHANGED <<ufile, imageVars, authVars, mainVars, pollVars>>

\* ------------------------------------------------------------------ IRCBot: the registry
may_acquire_anyway(t) == TRUE

never_acquire(t) == FALSE

\* with self._auth_map_lock: a thread enters when no thread holds the lock
may_acquire(t) == lock = NoneV

code_is_unset(code) == code = NoneV

\* the loop test of new_auth_callback
needs_new_code(code) == code = NoneV \/ code \in DOMAIN auth_map

\* auth_map[authcode] = callback
auth_map_set(code, h) ==
    [c \in DOMAIN auth_map \cup {code} |-> IF c = code THEN h ELSE auth_map[c]]

auth_map_keep(code) == auth_map

\* del auth_map[authcode]
auth_map_del(code) == [c \in DOMAIN auth_map \ {code} |-> auth_map[c]]

auth_map_get_other(code) ==
    IF \E k \in DOMAIN auth_map : k # code
    THEN auth_map[CHOOSE k \in DOMAIN auth_map : k # code]
    ELSE IF code \in DOMAIN auth_map THEN auth_map[code] ELSE NoneV

\* auth_map.get(args[0])
auth_map_get(code) == IF code \in DOMAIN auth_map THEN auth_map[code] ELSE NoneV

\* a thread calls new_auth_callback(callback, authcode): it takes the lock, with the
\* preferred code (or None) as the loop's first candidate
new_auth_callback(h, pref) ==
    /\ hpc[h] = "idle"
    /\ hlog[h].calls < MaxCalls
    /\ may_acquire(h)
    /\ lock' = h
    /\ authcode' = [authcode EXCEPT ![h] = pref]
    /\ hlog' = [hlog EXCEPT ![h].calls = @ + 1]
    /\ hpc' = [hpc EXCEPT ![h] = "new_auth_callback"]
    /\ UNCHANGED <<auth_map, message, authenticated, start_time, now,
                   ipc, chanmsg, cb, irc_out, msgs, userVars, mainVars, pollVars, storeVars, imageVars>>

\* new_auth_callback's loop and return: draw while the candidate is unset or taken,
\* then store the callback and release the lock
new_auth_callback_loop(h) ==
    /\ hpc[h] = "new_auth_callback"
    /\ IF needs_new_code(authcode[h])
       THEN /\ \E code \in Codes : authcode' = [authcode EXCEPT ![h] = code]
            /\ UNCHANGED <<auth_map, lock, hpc>>
       ELSE /\ auth_map' = auth_map_set(authcode[h], h)
            /\ lock' = NoneV
            /\ hpc' = [hpc EXCEPT ![h] = "idle"]
            /\ UNCHANGED authcode
    /\ UNCHANGED <<message, authenticated, start_time, now,
                   ipc, chanmsg, cb, hlog, irc_out, msgs, userVars, mainVars, pollVars, storeVars, imageVars>>

\* a thread calls remove_auth_callback(authcode): under the lock, del
\* auth_map[authcode], which raises KeyError for a code that is no key; the with
\* statement releases the lock either way
remove_auth_callback(h, code) ==
    /\ hpc[h] = "idle"
    /\ hlog[h].calls < MaxCalls
    /\ may_acquire(h)
    /\ IF code \in DOMAIN auth_map
       THEN /\ auth_map' = auth_map_del(code)
            /\ hlog' = [hlog EXCEPT ![h].calls = @ + 1, ![h].removed = @ + 1]
       ELSE /\ hlog' = [hlog EXCEPT ![h].calls = @ + 1, ![h].raised = "KeyError"]
            /\ UNCHANGED auth_map
    /\ UNCHANGED <<lock, hpc, message, authcode, authenticated, start_time, now,
                   ipc, chanmsg, cb, irc_out, msgs, userVars, mainVars, pollVars, storeVars, imageVars>>

\* ------------------------------------------------------------------ AuthHandler
NoLog == [code_sent |-> 0, invoked |-> 0, written |-> 0, irc_ok |-> 0, authed |-> 0,
          timed_out |-> 0, removed |-> 0, retried |-> FALSE, raised |-> NoneV, calls |-> 0]

Bump(h, field) == [hlog EXCEPT ![h][field] = @ + 1]

\* on_auth: a /auth text arrives and an AuthHandler thread is started for it; the
\* threads are numbered in the order in which they are started
OnAuth(h, m) ==
    /\ hpc[h] = "idle"
    /\ \A g \in Handshakes : hpc[g] # "idle" => message[g] # m
    /\ \A g \in Handshakes : hpc[g] = "idle" => Slot(h) <= Slot(g)
    /\ message' = [message EXCEPT ![h] = m]
    /\ hpc' = [hpc EXCEPT ![h] = "register"]
    /\ UNCHANGED <<auth_map, lock, authcode, authenticated, start_time, now,
                   ipc, chanmsg, cb, hlog, irc_out, msgs, userVars, mainVars, pollVars, storeVars, imageVars>>

\* run_ calls new_auth_callback(self.do_authentication): the lock is taken and, authcode
\* being None, the loop is entered and draws randomstr(10)
NewAuthCallback(h) ==
    /\ hpc[h] = "register"
    /\ may_acquire(h)
    /\ lock' = h
    /\ \E code \in Codes : authcode' = [authcode EXCEPT ![h] = code]
    /\ hpc' = [hpc EXCEPT ![h] = "new_code"]
    /\ UNCHANGED <<auth_map, message, authenticated, start_time, now,
                   ipc, chanmsg, cb, hlog, irc_out, msgs, userVars, mainVars, pollVars, storeVars, imageVars>>

\* new_auth_callback's loop: draw again while the code is a key of auth_map, then
\* store the callback, release the lock and return the code; run_ sends the message
\* with the code and takes start_time = time.time()
NewCode(h) ==
    /\ hpc[h] = "new_code"
    /\ IF needs_new_code(authcode[h])
       THEN /\ \E code \in Codes : authcode' = [authcode EXCEPT ![h] = code]
            /\ hlog' = [hlog EXCEPT ![h].retried = TRUE]
            /\ UNCHANGED <<auth_map, lock, hpc, start_time>>
       ELSE /\ auth_map' = auth_map_set(authcode[h], h)
            /\ lock' = NoneV
            /\ hlog' = Bump(h, "code_sent")
            /\ start_time' = [start_time EXCEPT ![h] = now]
            /\ hpc' = [hpc EXCEPT ![h] = "while"]
            /\ UNCHANGED authcode
    /\ UNCHANGED <<message, authenticated, now,
                   ipc, chanmsg, cb, irc_out, msgs, userVars, mainVars, pollVars, storeVars, imageVars>>

\* run_: while time.time() < start_time + auth_timeout ... else: (the loop ran out)
While(h) ==
    /\ hpc[h] = "while"
    /\ hpc' = [hpc EXCEPT ![h] = IF now < start_time[h] + AuthTimeout
                                 THEN "if_authenticated" ELSE "else"]
    /\ UNCHANGED <<auth_map, lock, message, authcode, authenticated, start_time, now,
                   ipc, chanmsg, cb, hlog, irc_out, msgs, userVars, mainVars, pollVars, storeVars, imageVars>>

\* run_: if self.authenticated: break; else time.sleep(0.5) and test the loop again
IfAuthenticated(h) ==
    /\ hpc[h] = "if_authenticated"
    /\ hpc' = [hpc EXCEPT ![h] = IF authenticated[h] THEN "remove" ELSE "while"]
    /\ UNCHANGED <<auth_map, lock, message, authcode, authenticated, start_time, now,
                   ipc, chanmsg, cb, hlog, irc_out, msgs, userVars, mainVars, pollVars, storeVars, imageVars>>

\* run_: the else clause of the loop sends "Authentication timed out"
Else(h) ==
    /\ hpc[h] = "else"
    /\ hlog' = Bump(h, "timed_out")
    /\ hpc' = [hpc EXCEPT ![h] = "remove"]
    /\ UNCHANGED <<auth_map, lock, message, authcode, authenticated, start_time, now,
                   ipc, chanmsg, cb, irc_out, msgs, userVars, mainVars, pollVars, storeVars, imageVars>>

\* run_ calls remove_auth_callback(authcode): under the lock, del auth_map[authcode];
\* run_ returns and the thread ends
RemoveAuthCallback(h) ==
    /\ hpc[h] = "remove"
    /\ may_acquire(h)
    /\ auth_map' = auth_map_del(authcode[h])
    /\ hlog' = Bump(h, "removed")
    /\ start_time' = [start_time EXCEPT ![h] = 0]
    /\ hpc' = [hpc EXCEPT ![h] = "done"]
    /\ UNCHANGED <<lock, message, authcode, authenticated, now,
                   ipc, chanmsg, cb, irc_out, msgs, userVars, mainVars, pollVars, storeVars, imageVars>>

\* run_: tg_bot.send_message of the message with the code raises; the exception leaves
\* run_ (which has no try statement) and BaseHandler.run logs it: the thread ends
\* without having called remove_auth_callback
SendCodeRaises(h) ==
    /\ hpc[h] = "new_code"
    /\ ~needs_new_code(authcode[h])
    /\ auth_map' = auth_map_set(authcode[h], h)
    /\ lock' = NoneV
    /\ hlog' = [hlog EXCEPT ![h].raised = "send_message"]
    /\ hpc' = [hpc EXCEPT ![h] = "done"]
    /\ UNCHANGED <<message, authcode, authenticated, start_time, now,
                   ipc, chanmsg, cb, irc_out, msgs, userVars, mainVars, pollVars, storeVars, imageVars>>

\* run_: tg_bot.send_message of "Authentication timed out" raises, likewise
TimedOutRaises(h) ==
    /\ hpc[h] = "else"
    /\ hlog' = [hlog EXCEPT ![h].raised = "send_message"]
    /\ start_time' = [start_time EXCEPT ![h] = 0]
    /\ hpc' = [hpc EXCEPT ![h] = "done"]
    /\ UNCHANGED <<auth_map, lock, message, authcode, authenticated, now,
                   ipc, chanmsg, cb, irc_out, msgs, userVars, mainVars, pollVars, storeVars, imageVars>>

\* time.time() advances
Tick ==
    /\ now < MaxTime
    /\ now' = now + 1
    /\ UNCHANGED <<auth_map, lock, hpc, message, authcode, authenticated, start_time,
                   ipc, chanmsg, cb, hlog, irc_out, msgs, userVars, mainVars, pollVars, storeVars, imageVars>>

\* ------------------------------------------------------------------ IRCBot.on_msg_command
\* message.partition(self.nick)[2].split(" "): the words after the bot's nick, the
\* first being what directly follows the nick (":" or the empty string)
AuthWords ==
    {<<":", "auth", code>> : code \in Codes}
    \cup {<<":", "auth", code, name>> : code \in Codes, name \in AltNames}

MsgWords == {<<>>, <<":">>, <<":", "help">>, <<":", "auth">>} \cup AuthWords

\* _, command, *args = text.split(" ")
command(words) == words[2]

args(words) == SubSeq(words, 3, Len(words))

auth_name_nick(nick, a) == nick

\* args[1] if len(args) > 1 else nick
auth_name(nick, a) == IF Len(a) > 1 THEN a[2] ELSE nick

Out(text) == <<[text |-> text, nick |-> chanmsg.nick]>>

\* a channel message directed at the bot arrives: partition, split, command test
OnMsgCommand(nick, words) ==
    /\ ipc = "idle"
    /\ msgs < MaxMsgs
    /\ msgs' = msgs + 1
    /\ chanmsg' = [nick |-> nick, words |-> words]
    /\ cb' = NoneV
    /\ IF words = <<>>
       THEN /\ irc_out' = <<>>
            /\ ipc' = "idle"
       ELSE IF Len(words) < 2
       THEN /\ irc_out' = <<[text |-> "ValueError", nick |-> nick]>>
            /\ ipc' = "idle"
       ELSE IF command(words) = "auth"
       THEN /\ irc_out' = <<>>
            /\ ipc' = "auth"
       ELSE /\ irc_out' = <<[text |-> "Unknown command", nick |-> nick]>>
            /\ ipc' = "idle"
    /\ UNCHANGED <<auth_map, lock, hpc, message, authcode, authenticated, start_time, now,
                   hlog, userVars, mainVars, pollVars, storeVars, imageVars>>

\* on_msg_command, command 'auth': under the lock, cb = auth_map.get(args[0]);
\* args[0] of an empty args raises IndexError, no cb is answered 'Auth code invalid'
Resolve ==
    /\ ipc = "auth"
    /\ may_acquire(IrcThread)
    /\ IF args(chanmsg.words) = <<>>
       THEN /\ irc_out' = Out("IndexError")
            /\ ipc' = "idle"
            /\ UNCHANGED <<cb, lock>>
       ELSE IF auth_map_get(args(chanmsg.words)[1]) # NoneV
       THEN /\ cb' = auth_map_get(args(chanmsg.words)[1])
            /\ lock' = IrcThread
            /\ ipc' = "callback"
            /\ UNCHANGED irc_out
       ELSE /\ irc_out' = Out("Auth code invalid")
            /\ ipc' = "idle"
            /\ UNCHANGED <<cb, lock>>
    /\ UNCHANGED <<auth_map, hpc, message, authcode, authenticated, start_time, now,
                   chanmsg, hlog, msgs, userVars, mainVars, pollVars, storeVars, imageVars>>

never_authenticated(h) == FALSE

\* the test of do_authentication
already_authenticated(h) == authenticated[h]

\* on_msg_command calls cb(name), still under the lock: do_authentication returns if
\* authenticated, else writes name_map and sends the two success messages
DoAuthentication ==
    /\ ipc = "callback"
    /\ IF already_authenticated(cb)
       THEN /\ hlog' = Bump(cb, "invoked")
            /\ lock' = NoneV
            /\ ipc' = "idle"
            /\ UNCHANGED <<name_map, irc_out, ufile>>
       ELSE /\ name_map' = add_to_name_map(message[cb].sender,
                                           auth_name(chanmsg.nick, args(chanmsg.words)))
            /\ ufile' = json_dump(name_map', blacklist)
            /\ hlog' = [hlog EXCEPT ![cb].invoked = @ + 1, ![cb].written = @ + 1,
                                    ![cb].irc_ok = @ + 1, ![cb].authed = @ + 1]
            /\ irc_out' = <<[text |-> "Authentication successful.",
                             nick |-> auth_name(chanmsg.nick, args(chanmsg.words))]>>
            /\ ipc' = "set_authenticated"
            /\ UNCHANGED lock
    /\ UNCHANGED <<auth_map, hpc, message, authcode, authenticated, start_time, now,
                   chanmsg, cb, msgs, blacklist, imageVars, mainVars, pollVars, ucached, ulog>>

authenticated_unset(h) == authenticated

\* self.authenticated = True
set_authenticated(h) == [authenticated EXCEPT ![h] = TRUE]

\* do_authentication: self.authenticated = True; the callback returns and the lock is released
SetAuthenticated ==
    /\ ipc = "set_authenticated"
    /\ authenticated' = set_authenticated(cb)
    /\ lock' = NoneV
    /\ ipc' = "idle"
    /\ UNCHANGED <<auth_map, hpc, message, authcode, start_time, now,
                   chanmsg, cb, hlog, irc_out, msgs, userVars, mainVars, pollVars, storeVars, imageVars>>

\* on_msg_command calls cb(name) and do_authentication raises: in add_to_name_map
\* (user_cache or _write_cache), before anything is written, or in send_message, after
\* name_map was written and the channel was told. do_authentication has no try
\* statement and runs in the IRC thread: the exception passes through on_msg_command,
\* whose with statement releases the lock; self.authenticated stays False
DoAuthenticationRaises ==
    /\ ipc = "callback"
    /\ ~already_authenticated(cb)
    /\ \E call \in {"add_to_name_map", "send_message"} :
         IF call = "add_to_name_map"
         THEN /\ hlog' = Bump(cb, "invoked")
              /\ irc_out' = Out("Exception")
              /\ UNCHANGED <<name_map, ufile>>
         ELSE /\ name_map' = add_to_name_map(message[cb].sender,
                                             auth_name(chanmsg.nick, args(chanmsg.words)))
              /\ ufile' = json_dump(name_map', blacklist)
              /\ hlog' = [hlog EXCEPT ![cb].invoked = @ + 1, ![cb].written = @ + 1,
                                      ![cb].irc_ok = @ + 1]
              /\ irc_out' = <<[text |-> "Authentication successful.",
                               nick |-> auth_name(chanmsg.nick, args(chanmsg.words))]>>
                            \o Out("Exception")
    /\ lock' = NoneV
    /\ ipc' = "idle"
    /\ UNCHANGED <<auth_map, hpc, message, authcode, authenticated, start_time, now,
                   chanmsg, cb, msgs, blacklist, imageVars, mainVars, pollVars, ucached, ulog>>

\* ------------------------------------------------------------------ main
\* the keys of config.yaml that may be absent
ConfigKeys == {"telegram.token", "imgur.client_id", "imgur.client_secret",
               "imgur.refresh_token", "irc.host", "irc.channel", "irc.nick"}

\* the threads on_image starts, at startup and from the poll loop
MainUnits == {1, 2}

verify_config_passes(c) == TRUE

\* verify_config: True only if none of the tested keys is missing (None otherwise)
verify_config(c) ==
    IF "telegram.token" \in c.missing THEN FALSE
    ELSE IF "imgur.client_id" \in c.missing \/ "imgur.client_secret" \in c.missing THEN FALSE
    ELSE IF "imgur.refresh_token" \in c.missing THEN FALSE
    ELSE IF "irc.host" \in c.missing \/ "irc.channel" \in c.missing THEN FALSE
    ELSE TRUE

\* the orders in which a SELECT may return a set of rows
Orders(S) ==
    {s \in [1..Cardinality(S) -> S] : \A i, j \in 1..Cardinality(S) : i # j => s[i] # s[j]}

joined_at_once(u) == TRUE

\* Thread.join returns when the thread's run has ended
joined(u) == ppc[u] = "done"

\* main: if not verify_config(conf): return 2
VerifyConfig ==
    /\ mpc = "verify_config"
    /\ IF verify_config(conf)
       THEN /\ mpc' = "irc_start"
            /\ UNCHANGED exit_code
       ELSE /\ exit_code' = 2
            /\ mpc' = "returned"
    /\ UNCHANGED <<connected, backlog, replayed, wait_start,
                   imageVars, userVars, authVars, storeVars, pollVars>>

\* main: UserDatabase(...), MyIRCClient(...), irc_bot.start(), and the call of
\* wait_connected, which takes start = time.time()
IrcStart ==
    /\ mpc = "irc_start"
    /\ ipc' = "idle"
    /\ wait_start' = now
    /\ mpc' = "wait_connected"
    /\ UNCHANGED <<exit_code, connected, backlog, replayed, imageVars, userVars, storeVars, pollVars,
                   auth_map, lock, hpc, message, authcode, authenticated, start_time, now,
                   chanmsg, cb, hlog, irc_out, msgs>>

\* _process_data in the IRC thread reads reply 266
IrcConnects ==
    /\ ipc # "not_started"
    /\ ~connected
    /\ connected' = TRUE
    /\ UNCHANGED <<mpc, exit_code, backlog, replayed, wait_start,
                   imageVars, userVars, authVars, storeVars, pollVars>>

\* wait_connected: while time.time() < start + timeout ... else: return False, and
\* main returns 3
WaitConnected ==
    /\ mpc = "wait_connected"
    /\ IF now < wait_start + IrcTimeout
       THEN /\ mpc' = "if_connected"
            /\ UNCHANGED exit_code
       ELSE /\ exit_code' = 3
            /\ mpc' = "returned"
    /\ UNCHANGED <<connected, backlog, replayed, wait_start,
                   imageVars, userVars, authVars, storeVars, pollVars>>

\* wait_connected: if self._connected: return True, else sleep and test the loop again;
\* main then joins the channel, creates the Telegram bot and sets on_image and on_auth
IfConnected ==
    /\ mpc = "if_connected"
    /\ mpc' = IF connected THEN "scan" ELSE "wait_connected"
    /\ UNCHANGED <<exit_code, connected, backlog, replayed, wait_start,
                   imageVars, userVars, authVars, storeVars, pollVars>>

\* main: with a database configured, backlog = db.get_unfinished_images()
Scan ==
    /\ mpc = "scan"
    /\ IF conf.database
       THEN /\ backlog' \in Orders(get_unfinished_images)
            /\ mpc' = IF backlog' # <<>> THEN "backlog" ELSE "poll_loop"
       ELSE /\ mpc' = "poll_loop"
            /\ UNCHANGED backlog
    /\ UNCHANGED <<exit_code, connected, replayed, wait_start,
                   imageVars, userVars, authVars, storeVars, pollVars>>

\* main: for img in backlog: on_image(img) starts a thread with the persisted record
BacklogImage(u) ==
    /\ mpc = "backlog"
    /\ ppc[u] \in {"idle", "done"}
    /\ LET i == backlog[Len(replayed) + 1]
       IN /\ event' = [event EXCEPT ![u] = i]
          /\ img' = [img EXCEPT ![u] = i]
          /\ replayed' = Append(replayed, i.f_id)
    /\ db_img' = [db_img EXCEPT ![u] = NoImg]
    /\ plog' = [plog EXCEPT ![u] = <<>>]
    /\ ppc' = [ppc EXCEPT ![u] = "authorize"]
    /\ mpc' = "join"
    /\ UNCHANGED <<exit_code, connected, backlog, wait_start, conf, images, disk, announced,
                   delivered, runs, userVars, authVars, storeVars, pollVars>>

\* main: .join() of the thread just started returns; the loop goes to the next record,
\* or ends and main calls poll_loop
JoinBacklog ==
    /\ mpc = "join"
    /\ \E u \in MainUnits :
          /\ ppc[u] # "idle"
          /\ event[u].f_id = replayed[Len(replayed)]
          /\ joined(u)
    /\ mpc' = IF Len(replayed) < Len(backlog) THEN "backlog" ELSE "poll_loop"
    /\ UNCHANGED <<exit_code, connected, backlog, replayed, wait_start,
                   imageVars, userVars, authVars, storeVars, pollVars>>

\* updates the poll loop has dispatched: photos and /auth texts
Polled == runs + Cardinality({h \in Handshakes : hpc[h] # "idle"})

\* poll_loop: handle_updates hands a photo to on_image
PollImage(u, f, c, cap) ==
    /\ mpc = "poll_loop"
    /\ Polled < MaxPolled
    /\ OnImage(u, f, c, cap)

\* poll_loop: on_text hands a /auth text to on_auth
PollAuth(h, m) ==
    /\ mpc = "poll_loop"
    /\ Polled < MaxPolled
    /\ OnAuth(h, m)

\* run_ reads user_db.blacklist, the first access to the UserDatabase of this process:
\* with no file at its path user_cache becomes dict(name_map={}, blacklist=[]), the
\* sender is in neither and is told to authenticate
AuthorizeFirst(u) ==
    /\ ppc[u] = "authorize"
    /\ ~ucached
    /\ ~ufile.exists
    /\ ucached' = TRUE
    /\ name_map' = <<>>
    /\ blacklist' = {}
    /\ plog' = [plog EXCEPT ![u] = Append(@, reply(img[u], "need_auth"))]
    /\ ppc' = [ppc EXCEPT ![u] = "done"]
    /\ UNCHANGED <<event, conf, images, disk, img, db_img, announced, delivered, runs,
                   ufile, ulog, mainVars, pollVars, authVars>>

\* run_ reads user_db.blacklist and user_cache raises: the thread ends
AuthorizeRaises(u) ==
    /\ ppc[u] = "authorize"
    /\ user_cache_raises # NoneV
    /\ plog' = [plog EXCEPT ![u] = Append(@, uncaught(user_cache_raises))]
    /\ ppc' = [ppc EXCEPT ![u] = "done"]
    /\ UNCHANGED <<event, conf, images, disk, img, db_img, announced, delivered, runs,
                   userVars, mainVars, pollVars, storeVars, authVars>>

\* run_ with the UserDatabase loaded
AuthorizeLoaded(u) ==
    /\ ucached
    /\ Authorize(u)

\* ------------------------------------------------------------------ TelegramImageBot: poll_loop and on_text
UpdateIds == 1..MaxUpdateId

NoPoll == [n |-> 0, offset |-> <<>>, outcome |-> NoneV]

NoUpdate == [kind |-> NoneV, sender |-> 0, chat |-> 0, text |-> [slash |-> FALSE, words |-> <<>>],
             replies |-> <<>>, ran |-> <<>>]

\* the update_ids of a response, in the order the server sends them
RECURSIVE Ascending(_)
Ascending(S) ==
    IF S = {} THEN <<>>
    ELSE LET least == CHOOSE i \in S : \A j \in S : i <= j
         IN <<least>> \o Ascending(S \ {least})

new_offset_same(off, upd_id) == <<upd_id>>

\* if not self.offset or upd_id >= self.offset: self.offset = upd_id + 1
new_offset(off, upd_id) ==
    IF off = <<>> \/ off[1] = 0 \/ upd_id >= off[1] THEN <<upd_id + 1>> ELSE off

\* text messages: text.startswith("/") is the field slash, the words are what
\* text[1:].split() gives for a command and text.split() otherwise; no command names
\* another bot after an "@"
Texts ==
    {[slash |-> FALSE, words |-> <<"hello">>],
     [slash |-> TRUE, words |-> <<>>],
     [slash |-> TRUE, words |-> <<"nope">>],
     [slash |-> TRUE, words |-> <<"start">>],
     [slash |-> TRUE, words |-> <<"get_id">>],
     [slash |-> TRUE, words |-> <<"blacklist">>],
     [slash |-> TRUE, words |-> <<"blacklist", "add", "2">>],
     [slash |-> TRUE, words |-> <<"blacklist", "remove", "2">>]}

\* TelegramImageBot._command_handlers as the decorators below the class fill it: one
\* (func, admin) pair per command; /auth, which starts an AuthHandler, is OnAuth
command_handlers ==
    [start     |-> <<[func |-> "cmd_start", admin |-> FALSE]>>,
     help      |-> <<[func |-> "cmd_start", admin |-> FALSE]>>,
     get_id    |-> <<[func |-> "cmd_get_id", admin |-> FALSE]>>,
     blacklist |-> <<[func |-> "cmd_blacklist", admin |-> TRUE]>>]

\* message.text.startswith("/") and len(message.text) > 1
is_command(text) == text.slash /\ Len(text.words) > 0

\* message.sender.id in (self.conf.telegram.admin or [])
is_admin(sender) == sender \in admin

\* what a command function returns: cmd_start its help text (longer for an admin),
\* cmd_get_id the sender's id, cmd_blacklist the outcome of the UserDatabase call,
\* whose add_to_blacklist and remove_from_blacklist of a named id raise
handler_reply(func, cmd_args, sender) ==
    IF func = "cmd_start"
    THEN IF is_admin(sender) THEN "Authenticate yourself via /auth; More commands for admins"
                             ELSE "Authenticate yourself via /auth"
    ELSE IF func = "cmd_get_id" THEN str(sender)
    ELSE IF ~(Len(cmd_args) = 2 /\ cmd_args[1] \in {"add", "remove"} /\ cmd_args[2] \in {"1", "2"})
    THEN "Invalid arguments; expected an action and a user ID."
    ELSE IF cmd_args[1] = "add" \/ int(cmd_args[2]) \in DOMAIN name_map THEN "AttributeError"
    ELSE "Blacklist changed."

\* the loop of on_text over the handlers of a command: an admin-only handler is
\* skipped by the continue that ends the 'if admin' block, after the refusal sent to
\* a sender who is no admin; any other handler is called, and its reply sent
RECURSIVE run_handlers(_, _, _, _)
run_handlers(hs, cmd_args, m, out) ==
    IF hs = <<>> THEN out
    ELSE LET h == Head(hs)
         IN IF h.admin
            THEN run_handlers(Tail(hs), cmd_args, m,
                     IF ~is_admin(m.sender)
                     THEN [out EXCEPT !.replies =
                              Append(@, "You must be an admin to use this command.")]
                     ELSE out)
            ELSE [out EXCEPT !.ran = Append(@, h.func),
                             !.replies = Append(@, handler_reply(h.func, cmd_args, m.sender))]

\* on_text(message): what is sent to message.chat.id and which handlers were called
on_text(m, text) ==
    LET out == [NoUpdate EXCEPT !.kind = "text", !.sender = m.sender, !.chat = m.chat,
                                !.text = text]
    IN IF ~is_command(text)
       THEN [out EXCEPT !.replies = <<"Just send me photos or images or type /help for a list of commands">>]
       ELSE IF Head(text.words) \notin DOMAIN command_handlers
       THEN [out EXCEPT !.replies = <<"Unknown command. Type /help for a list of commands.">>]
       ELSE run_handlers(command_handlers[Head(text.words)], Tail(text.words), m, out)

\* handle_updates for an update that is no text: a photo or an image document goes to
\* on_image (the thread it starts is OnImage), anything else is answered
on_other(kind, m) ==
    [NoUpdate EXCEPT !.kind = kind, !.sender = m.sender, !.chat = m.chat,
                     !.replies = IF kind = "photo" THEN <<>>
                                 ELSE <<"I do not know how to handle that">>]

\* poll_loop: get_updates(offset=self.offset) answered with the updates the server
\* holds from that offset on, in ascending order; with none, handle_updates returns
GetUpdates ==
    /\ mpc = "poll_loop"
    /\ batch = <<>>
    /\ polls.n < MaxPolls
    /\ \E S \in SUBSET {i \in UpdateIds : offset = <<>> \/ i >= offset[1]} :
          batch' = Ascending(S)
    /\ polls' = [n |-> polls.n + 1, offset |-> offset, outcome |-> "on_success"]
    /\ UNCHANGED <<offset, handled, admin, text_out, imageVars, userVars, authVars,
                   mainVars, storeVars>>

\* handle_updates, one turn of its loop: the update is dispatched on its content and
\* the offset is moved past it
HandleUpdates(kind, m, text) ==
    /\ batch # <<>>
    /\ text_out' = IF kind = "text" THEN on_text(m, text) ELSE on_other(kind, m)
    /\ offset' = new_offset(offset, Head(batch))
    /\ handled' = handled \cup {Head(batch)}
    /\ batch' = Tail(batch)
    /\ UNCHANGED <<polls, admin, imageVars, userVars, authVars, mainVars, storeVars>>

\* poll_loop: get_updates fails; handle_error logs the error and sleeps
HandleError ==
    /\ mpc = "poll_loop"
    /\ batch = <<>>
    /\ polls.n < MaxPolls
    /\ polls' = [n |-> polls.n + 1, offset |-> offset, outcome |-> "on_error"]
    /\ UNCHANGED <<offset, batch, handled, admin, text_out, imageVars, userVars, authVars,
                   mainVars, storeVars>>

\* ------------------------------------------------------------------ specification of the pipeline
\* the identity document the handlers are constructed with: some chats are named,
\* some are blacklisted
InitUsers ==
    /\ \E S \in SUBSET ChatIds : name_map = [c \in S |-> NameOf(c)]
    /\ blacklist \in SUBSET ChatIds

\* IRCBot.__init__, and no AuthHandler started
InitAuth ==
    /\ auth_map = <<>>
    /\ lock = NoneV
    /\ hpc = [h \in Handshakes |-> "idle"]
    /\ message = [h \in Handshakes |-> [sender |-> 0, chat |-> 0]]
    /\ authcode = [h \in Handshakes |-> NoneV]
    /\ authenticated = [h \in Handshakes |-> FALSE]
    /\ start_time = [h \in Handshakes |-> 0]
    /\ now = 0
    /\ ipc = "idle"
    /\ chanmsg = [nick |-> NoneV, words |-> <<>>]
    /\ cb = NoneV
    /\ hlog = [h \in Handshakes |-> NoLog]
    /\ irc_out = <<>>
    /\ msgs = 0

\* an empty images table, and no ImageHandler started
InitPipeline ==
    /\ images = <<>>
    /\ disk = {}
    /\ ppc = [u \in PUnits |-> "idle"]
    /\ event = [u \in PUnits |-> NoImg]
    /\ img = [u \in PUnits |-> NoImg]
    /\ db_img = [u \in PUnits |-> NoImg]
    /\ plog = [u \in PUnits |-> <<>>]
    /\ announced = [f \in FileIds |-> 0]
    /\ delivered = [f \in FileIds |-> 0]
    /\ runs = 0

\* TelegramImageBot.__init__: no offset yet, nothing polled
InitPoll ==
    /\ offset = <<>>
    /\ batch = <<>>
    /\ handled = {}
    /\ polls = NoPoll
    /\ text_out = NoUpdate

\* telegram.admin of config.yaml names chat user 1
InitAdmin == admin = {1}

\* main() has reached poll_loop: the configuration was verified, IRC is connected and
\* the backlog, if any, was gone through
InitPolling ==
    /\ mpc = "poll_loop"
    /\ exit_code = -1
    /\ connected = TRUE
    /\ backlog = <<>>
    /\ replayed = <<>>
    /\ wait_start = 0
    /\ InitPoll
    /\ InitAdmin

\* the UserDatabase of this process holds name_map and blacklist in its cache, and the
\* file holds what the cache holds
InitStore ==
    /\ ufile = json_dump(name_map, blacklist)
    /\ ucached = TRUE
    /\ ulog = NoULog

InitImage ==
    /\ conf \in [delete_images : BOOLEAN, database : BOOLEAN]
    /\ InitPipeline
    /\ InitUsers
    /\ InitAuth
    /\ InitPolling
    /\ InitStore

\* image events are handled in sequence: the one ImageHandler thread of PUnits is
\* started again only when its previous run has ended
NextImage ==
    \/ \E u \in PUnits, f \in FileIds, c \in ChatIds, cap \in Captions : OnImage(u, f, c, cap)
    \/ \E u \in PUnits : Authorize(u)
    \/ \E u \in PUnits : Resume(u)
    \/ \E u \in PUnits : GetFile(u)
    \/ \E u \in PUnits : Transfer(u)
    \/ \E u \in PUnits : Upload(u)
    \/ \E u \in PUnits : Announce(u)
    \/ \E u \in PUnits : Finish(u)
    \/ \E u \in PUnits : Persist(u)

SpecImage == InitImage /\ [][NextImage]_vars

\* ------------------------------------------------------------------ specification of the pipeline with failing calls
\* as SpecImage, and the calls to Telegram, IRC and sqlite made by run_ may fail
NextImageErr ==
    \/ NextImage
    \/ \E u \in PUnits : AuthorizeChatActionRaises(u)
    \/ \E u \in PUnits : OpenStoreRaises(u)
    \/ \E u \in PUnits : AnnounceRaises(u)
    \/ \E u \in PUnits : FinishUnacknowledged(u)

SpecImageErr == InitImage /\ [][NextImageErr]_vars

\* ------------------------------------------------------------------ specification of the handshake
\* chat user 1 is named already; AuthHandler threads and the IRC thread interleave
InitHandshake ==
    /\ conf = [delete_images |-> FALSE, database |-> TRUE]
    /\ InitPipeline
    /\ name_map = [c \in {1} |-> NameOf(c)]
    /\ blacklist = {}
    /\ InitAuth
    /\ InitPolling
    /\ InitStore

NextAuth ==
    \/ \E h \in Handshakes, m \in Requests : OnAuth(h, m)
    \/ \E h \in Handshakes : NewAuthCallback(h)
    \/ \E h \in Handshakes : NewCode(h)
    \/ \E h \in Handshakes : While(h)
    \/ \E h \in Handshakes : IfAuthenticated(h)
    \/ \E h \in Handshakes : Else(h)
    \/ \E h \in Handshakes : RemoveAuthCallback(h)
    \/ \E nick \in Nicks, words \in AuthWords : OnMsgCommand(nick, words)
    \/ Resolve
    \/ DoAuthentication
    \/ SetAuthenticated
    \/ Tick

SpecAuth == InitHandshake /\ [][NextAuth]_vars

\* ------------------------------------------------------------------ specification of the handshake with failing sends
\* as SpecAuth, and tg_bot.send_message may raise inside run_, and do_authentication
\* may raise
NextAuthErr ==
    \/ NextAuth
    \/ \E h \in Handshakes : SendCodeRaises(h)
    \/ \E h \in Handshakes : TimedOutRaises(h)
    \/ DoAuthenticationRaises

SpecAuthErr == InitHandshake /\ [][NextAuthErr]_vars

\* ------------------------------------------------------------------ specification of the handshake with fair scheduling
\* time.time() advances past the point at which the model's clock stops, for as long
\* as a handshake is inside its wait loop with its window still open
TickWaiting ==
    /\ now >= MaxTime
    /\ \E h \in Handshakes :
          /\ hpc[h] \in {"while", "if_authenticated"}
          /\ now < start_time[h] + AuthTimeout
    /\ now' = now + 1
    /\ UNCHANGED <<auth_map, lock, hpc, message, authcode, authenticated, start_time,
                   ipc, chanmsg, cb, hlog, irc_out, msgs, userVars, mainVars, pollVars, storeVars, imageVars>>

\* the first channel message of a behaviour
OnFirstMsgCommand(nick, words) ==
    /\ msgs = 0
    /\ OnMsgCommand(nick, words)

\* two /auth texts arrive, and one channel message "auth <code>" without a name
NextAuthLive ==
    \/ \E h \in Handshakes, m \in Requests : OnAuth(h, m)
    \/ \E h \in Handshakes : NewAuthCallback(h)
    \/ \E h \in Handshakes : NewCode(h)
    \/ \E h \in Handshakes : While(h)
    \/ \E h \in Handshakes : IfAuthenticated(h)
    \/ \E h \in Handshakes : Else(h)
    \/ \E h \in Handshakes : RemoveAuthCallback(h)
    \/ \E nick \in Nicks, code \in Codes : OnFirstMsgCommand(nick, <<":", "auth", code>>)
    \/ Resolve
    \/ DoAuthentication
    \/ SetAuthenticated
    \/ Tick
    \/ TickWaiting

\* every thread that can take a step eventually takes one, and time advances
FairAuth ==
    /\ \A h \in Handshakes :
          /\ WF_vars(NewAuthCallback(h))
          /\ WF_vars(NewCode(h))
          /\ WF_vars(While(h))
          /\ WF_vars(IfAuthenticated(h))
          /\ WF_vars(Else(h))
          /\ WF_vars(RemoveAuthCallback(h))
    /\ WF_vars(Resolve)
    /\ WF_vars(DoAuthentication)
    /\ WF_vars(SetAuthenticated)
    /\ WF_vars(Tick \/ TickWaiting)

SpecAuthLive == InitHandshake /\ [][NextAuthLive]_vars /\ FairAuth

\* ------------------------------------------------------------------ specification of the handshake nobody answers in time
\* a channel message with the code of a challenge arrives only after the requester
\* has been sent 'Authentication timed out'
OnLateMsgCommand(nick, words) ==
    /\ \E h \in Handshakes : authcode[h] = words[3] /\ hlog[h].timed_out > 0
    /\ OnMsgCommand(nick, words)

\* one /auth text, one AuthHandler thread
NextAuthLate ==
    \/ \E m \in Requests : OnAuth("h1", m)
    \/ \E h \in Handshakes : NewAuthCallback(h)
    \/ \E h \in Handshakes : NewCode(h)
    \/ \E h \in Handshakes : While(h)
    \/ \E h \in Handshakes : IfAuthenticated(h)
    \/ \E h \in Handshakes : Else(h)
    \/ \E h \in Handshakes : RemoveAuthCallback(h)
    \/ \E nick \in Nicks, words \in AuthWords : OnLateMsgCommand(nick, words)
    \/ Resolve
    \/ DoAuthentication
    \/ SetAuthenticated
    \/ Tick

SpecAuthLate == InitHandshake /\ [][NextAuthLate]_vars

\* ------------------------------------------------------------------ specification of the registry
\* threads call the registry's methods with any code
NextRegistry ==
    \/ \E h \in Handshakes, pref \in Codes \cup {NoneV} : new_auth_callback(h, pref)
    \/ \E h \in Handshakes : new_auth_callback_loop(h)
    \/ \E h \in Handshakes, code \in Codes : remove_auth_callback(h, code)

SpecRegistry == InitHandshake /\ [][NextRegistry]_vars

\* ------------------------------------------------------------------ specification of the identity store
\* a process starts with users.json absent, or left by an earlier process, or written
\* by hand; its UserDatabase has loaded nothing yet
InitUserDatabase ==
    /\ conf = [delete_images |-> FALSE, database |-> TRUE]
    /\ InitPipeline
    /\ InitAuth
    /\ InitPolling
    /\ name_map = <<>>
    /\ blacklist = {}
    /\ ufile \in {NoFile} \cup {json_dump([c \in S |-> NameOf(c)], bl) :
                                   S \in SUBSET ChatIds, bl \in SUBSET ChatIds}
    /\ ucached = FALSE
    /\ ulog = NoULog

\* callers use the UserDatabase in any order, and the process may restart
NextUsers ==
    \/ ReadNameMap
    \/ \E id_ \in ChatIds, name \in Names \cup AltNames : AddToNameMap(id_, name)
    \/ \E id_ \in ChatIds : AddToBlacklist(id_)
    \/ \E id_ \in ChatIds : RemoveFromBlacklist(id_)
    \/ Restart

SpecUsers == InitUserDatabase /\ [][NextUsers]_vars

\* ------------------------------------------------------------------ specification of the handshake followed by images
\* chat user 1 sends /auth in the private chat, whose id is the user's, or in group 2
GroupRequests == {[sender |-> 1, chat |-> 1], [sender |-> 1, chat |-> 2]}

\* nobody is named yet
InitAuthImage ==
    /\ conf = [delete_images |-> FALSE, database |-> TRUE]
    /\ InitPipeline
    /\ name_map = <<>>
    /\ blacklist = {}
    /\ InitAuth
    /\ InitPolling
    /\ InitStore

\* an image arrives from the chat of the handshake, after the handshake has ended
\* with do_authentication done
OnImageAfterAuth(u, f, cap) ==
    /\ hpc["h1"] = "done"
    /\ authenticated["h1"]
    /\ OnImage(u, f, message["h1"].chat, cap)

\* the handshake, answered on IRC or not, and then the image events
NextAuthImage ==
    \/ \E m \in GroupRequests : OnAuth("h1", m)
    \/ \E h \in Handshakes : NewAuthCallback(h)
    \/ \E h \in Handshakes : NewCode(h)
    \/ \E h \in Handshakes : While(h)
    \/ \E h \in Handshakes : IfAuthenticated(h)
    \/ \E h \in Handshakes : Else(h)
    \/ \E h \in Handshakes : RemoveAuthCallback(h)
    \/ \E nick \in Nicks, words \in AuthWords : OnFirstMsgCommand(nick, words)
    \/ Resolve
    \/ DoAuthentication
    \/ SetAuthenticated
    \/ Tick
    \/ \E u \in PUnits, f \in FileIds, cap \in Captions : OnImageAfterAuth(u, f, cap)
    \/ \E u \in PUnits : Authorize(u)
    \/ \E u \in PUnits : Resume(u)
    \/ \E u \in PUnits : GetFile(u)
    \/ \E u \in PUnits : Transfer(u)
    \/ \E u \in PUnits : Upload(u)
    \/ \E u \in PUnits : Announce(u)
    \/ \E u \in PUnits : Finish(u)
    \/ \E u \in PUnits : Persist(u)

SpecAuthImage == InitAuthImage /\ [][NextAuthImage]_vars

\* ------------------------------------------------------------------ specification of the channel messages
\* one /auth text arrives, and channel messages that name the bot, of every shape:
\* nothing after the nick, ":" only, another command, auth with and without a code
NextIrc ==
    \/ \E m \in Requests : OnAuth("h1", m)
    \/ \E h \in Handshakes : NewAuthCallback(h)
    \/ \E h \in Handshakes : NewCode(h)
    \/ \E h \in Handshakes : While(h)
    \/ \E h \in Handshakes : IfAuthenticated(h)
    \/ \E h \in Handshakes : Else(h)
    \/ \E h \in Handshakes : RemoveAuthCallback(h)
    \/ \E nick \in Nicks, words \in MsgWords : OnMsgCommand(nick, words)
    \/ Resolve
    \/ DoAuthentication
    \/ SetAuthenticated
    \/ Tick

SpecIrc == InitHandshake /\ [][NextIrc]_vars

\* ------------------------------------------------------------------ specification of the poll loop
\* main() has reached poll_loop; telegram.admin is absent or names some chat users
InitPollLoop ==
    /\ conf = [delete_images |-> FALSE, database |-> TRUE]
    /\ InitPipeline
    /\ name_map = [c \in {1} |-> NameOf(c)]
    /\ blacklist = {}
    /\ InitAuth
    /\ mpc = "poll_loop"
    /\ exit_code = -1
    /\ connected = TRUE
    /\ backlog = <<>>
    /\ replayed = <<>>
    /\ wait_start = 0
    /\ InitPoll
    /\ admin \in SUBSET ChatIds
    /\ InitStore

\* poll_loop asks for updates again and again; each response is handled to its end
\* before the next request
NextPoll ==
    \/ GetUpdates
    \/ \E kind \in {"photo", "other"}, m \in Requests :
          HandleUpdates(kind, m, [slash |-> FALSE, words |-> <<>>])
    \/ \E m \in Requests, text \in Texts : HandleUpdates("text", m, text)
    \/ HandleError

SpecPoll == InitPollLoop /\ [][NextPoll]_vars

\* ------------------------------------------------------------------ specification of the startup
\* the rows earlier runs of the pipeline may have left for a file: get_file failed,
\* the upload failed after the download, or the image was delivered
PersistedRecords(f) ==
    LET c == IF f = "f1" THEN 1 ELSE 2
        failed == [NewImageInfo(f, c, c, NoneV) EXCEPT !.username = NameOf(c)]
        downloaded == [failed EXCEPT !.remote_path = FilePath(f),
                                     !.local_path = OutFile(FilePath(f))]
        delivered_ == [downloaded EXCEPT !.url = Link(OutFile(FilePath(f))),
                                         !.finished = TRUE]
    IN {failed, downloaded, delivered_}

\* the process starts: config.yaml was read (any one key may be absent), the images
\* table holds what earlier processes left, users.json is there or not, and the
\* UserDatabase of this process has loaded nothing yet
InitMain ==
    /\ conf \in [delete_images : {FALSE}, database : BOOLEAN,
                  missing : {{}} \cup {{k} : k \in ConfigKeys}]
    /\ \E S \in SUBSET FileIds :
          images \in {t \in [S -> UNION {PersistedRecords(f) : f \in FileIds}] :
                         \A f \in S : t[f] \in PersistedRecords(f)}
    /\ ~conf.database => images = <<>>
    /\ disk = {images[f].local_path : f \in DOMAIN images} \ {NoneV}
    /\ ppc = [u \in MainUnits |-> "idle"]
    /\ event = [u \in MainUnits |-> NoImg]
    /\ img = [u \in MainUnits |-> NoImg]
    /\ db_img = [u \in MainUnits |-> NoImg]
    /\ plog = [u \in MainUnits |-> <<>>]
    /\ announced = [f \in FileIds |-> 0]
    /\ delivered = [f \in FileIds |-> 0]
    /\ runs = 0
    /\ name_map = <<>>
    /\ blacklist = {}
    /\ ufile \in {NoFile, json_dump([c \in ChatIds |-> NameOf(c)], {})}
    /\ ucached = FALSE
    /\ ulog = NoULog
    /\ auth_map = <<>>
    /\ lock = NoneV
    /\ hpc = [h \in Handshakes |-> "idle"]
    /\ message = [h \in Handshakes |-> [sender |-> 0, chat |-> 0]]
    /\ authcode = [h \in Handshakes |-> NoneV]
    /\ authenticated = [h \in Handshakes |-> FALSE]
    /\ start_time = [h \in Handshakes |-> 0]
    /\ now = 0
    /\ ipc = "not_started"
    /\ chanmsg = [nick |-> NoneV, words |-> <<>>]
    /\ cb = NoneV
    /\ hlog = [h \in Handshakes |-> NoLog]
    /\ irc_out = <<>>
    /\ msgs = 0
    /\ mpc = "verify_config"
    /\ exit_code = -1
    /\ connected = FALSE
    /\ backlog = <<>>
    /\ replayed = <<>>
    /\ wait_start = 0
    /\ InitPoll
    /\ InitAdmin

\* main, the IRC thread's connection, and the threads main and the poll loop start, of
\* which one AuthHandler. No channel message arrives, so that no name is added to the
\* name_map of this process and every ImageHandler ends at its authorization tests
NextMain ==
    \/ VerifyConfig
    \/ IrcStart
    \/ IrcConnects
    \/ WaitConnected
    \/ IfConnected
    \/ Scan
    \/ \E u \in MainUnits : BacklogImage(u)
    \/ JoinBacklog
    \/ \E u \in MainUnits, f \in FileIds, c \in ChatIds : PollImage(u, f, c, NoneV)
    \/ \E m \in Requests : PollAuth("h1", m)
    \/ \E u \in MainUnits : AuthorizeFirst(u)
    \/ \E u \in MainUnits : AuthorizeRaises(u)
    \/ \E u \in MainUnits : AuthorizeLoaded(u)
    \/ \E h \in Handshakes : NewAuthCallback(h)
    \/ \E h \in Handshakes : NewCode(h)
    \/ \E h \in Handshakes : While(h)
    \/ \E h \in Handshakes : IfAuthenticated(h)
    \/ \E h \in Handshakes : Else(h)
    \/ \E h \in Handshakes : RemoveAuthCallback(h)
    \/ Tick

SpecMain == InitMain /\ [][NextMain]_vars

\* ------------------------------------------------------------------ specification of two concurrent runs for one file
\* chat 1 is named; the images table is empty or holds the row an earlier run for
\* file f1 left when get_file failed
InitImagePair ==
    /\ conf = [delete_images |-> FALSE, database |-> TRUE]
    /\ images \in {<<>>,
                   [f \in {"f1"} |->
                       [NewImageInfo("f1", 1, 1, NoneV) EXCEPT !.username = NameOf(1)]]}
    /\ disk = {}
    /\ ppc = [u \in MainUnits |-> "idle"]
    /\ event = [u \in MainUnits |-> NoImg]
    /\ img = [u \in MainUnits |-> NoImg]
    /\ db_img = [u \in MainUnits |-> NoImg]
    /\ plog = [u \in MainUnits |-> <<>>]
    /\ announced = [f \in FileIds |-> 0]
    /\ delivered = [f \in FileIds |-> 0]
    /\ runs = 0
    /\ name_map = [c \in {1} |-> NameOf(c)]
    /\ blacklist = {}
    /\ InitAuth
    /\ InitPolling
    /\ InitStore

\* the same photo arrives from chat 1 in two messages: each starts its own thread
OnSameImage(u) ==
    /\ ppc[u] = "idle"
    /\ OnImage(u, "f1", 1, NoneV)

\* the two ImageHandler threads run at the same time
NextImagePair ==
    \/ \E u \in MainUnits : OnSameImage(u)
    \/ \E u \in MainUnits : Authorize(u)
    \/ \E u \in MainUnits : Resume(u)
    \/ \E u \in MainUnits : GetFile(u)
    \/ \E u \in MainUnits : Transfer(u)
    \/ \E u \in MainUnits : Upload(u)
    \/ \E u \in MainUnits : Announce(u)
    \/ \E u \in MainUnits : Finish(u)
    \/ \E u \in MainUnits : Persist(u)

SpecImagePair == InitImagePair /\ [][NextImagePair]_vars

\* ------------------------------------------------------------------ claims on the pipeline
Has(log, kinds) == \E k \in 1..Len(log) : log[k].ev \in kinds

\* C1: every persisted record with finished = true has a hosted url and, when
\* storage.delete_images is configured, no local_path.
C1_FinishedIsHostedAndCleaned ==
    \A f \in DOMAIN images :
        images[f].finished =>
            /\ images[f].url # NoneV
            /\ conf.delete_images => images[f].local_path = NoneV

\* C2: a run that starts from a persisted record with finished = true ends with that
\* same record persisted and has performed no download and no upload.
C2_FinishedRunIsIdempotent ==
    \A u \in PUnits :
        (ppc[u] = "done" /\ db_img[u] # NoImg /\ db_img[u].finished) =>
            /\ images[db_img[u].f_id] = db_img[u]
            /\ ~Has(plog[u], {"download", "upload"})

\* C3: each file_id is announced on IRC at most once and confirmed with
\* 'Image delivered' at most once.
C3_AnnouncedAtMostOnce ==
    \A f \in FileIds : announced[f] <= 1 /\ delivered[f] <= 1

\* C4: a run for an event whose chat_id is blacklisted does nothing: no download,
\* upload, announcement, reply or record write, with or without a name_map entry.
C4_BlacklistedIsDropped ==
    \A u \in PUnits :
        (ppc[u] # "idle" /\ event[u].c_id \in blacklist) =>
            /\ ppc[u] \in {"authorize", "done"}
            /\ plog[u] = <<>>
            /\ img[u] = event[u]

C4_Witness ==
    \E u \in PUnits :
        /\ ppc[u] = "done"
        /\ event[u].c_id \in blacklist
        /\ event[u].c_id \in DOMAIN name_map
        /\ runs > 1

\* C5: a run for an event whose chat_id is neither blacklisted nor in name_map sends
\* exactly one 'You need to authenticate' reply, to the event's message, and stops.
C5_UnauthorizedGetsOneReply ==
    \A u \in PUnits :
        (ppc[u] # "idle" /\ event[u].c_id \notin blacklist
                         /\ event[u].c_id \notin DOMAIN name_map) =>
            \/ ppc[u] = "authorize" /\ plog[u] = <<>>
            \/ /\ ppc[u] = "done"
               /\ plog[u] = <<Ev("reply", "need_auth", event[u].c_id, event[u].m_id)>>
               /\ img[u] = event[u]

C5_Witness ==
    \E u \in PUnits :
        /\ ppc[u] = "done"
        /\ event[u].c_id \notin blacklist
        /\ event[u].c_id \notin DOMAIN name_map
        /\ Len(plog[u]) = 1

\* ------------------------------------------------------------------ claims on the registry and the handshake
\* positions of run_ between the return of new_auth_callback and that of remove_auth_callback
Registered == {"while", "if_authenticated", "else", "remove"}

Outstanding(code) == \E h \in Handshakes : hpc[h] \in Registered /\ authcode[h] = code

InCallback(h) == ipc \in {"callback", "set_authenticated"} /\ cb = h

\* C6: a code returned by new_auth_callback was no key of the registry: every
\* outstanding challenge still owns the entry of its code, so no two share a code and
\* no callback was overwritten.
C6_IssuedCodeIsFresh ==
    \A h \in Handshakes :
        hpc[h] \in Registered =>
            /\ authcode[h] \in DOMAIN auth_map
            /\ auth_map[authcode[h]] = h

C6_Witness ==
    \E h, g \in Handshakes :
        /\ h # g
        /\ hpc[h] \in Registered
        /\ hpc[g] \in Registered
        /\ hlog[h].retried

\* C7: an 'auth <code>' message whose code is not that of an outstanding challenge
\* (never issued, or unregistered) invokes no callback, leaves the registry and
\* name_map unchanged and is answered 'Auth code invalid'.
C7_UnissuedCodeFails ==
    [][(/\ ipc = "auth"
        /\ ipc' # "auth"
        /\ args(chanmsg.words) # <<>>
        /\ ~Outstanding(args(chanmsg.words)[1]))
       => /\ ipc' = "idle"
          /\ irc_out' = Out("Auth code invalid")
          /\ auth_map' = auth_map
          /\ name_map' = name_map
          /\ hlog' = hlog
          /\ authenticated' = authenticated]_vars

C7_Witness ==
    /\ ipc = "idle"
    /\ irc_out = Out("Auth code invalid")
    /\ ~Outstanding(args(chanmsg.words)[1])
    /\ \E h \in Handshakes : hpc[h] = "done" /\ authcode[h] = args(chanmsg.words)[1]

C9_CallbackExcludesRemoval ==
    \A h \in Handshakes :
        InCallback(h) =>
            /\ lock = IrcThread
            /\ hpc[h] \in Registered
            /\ authcode[h] \in DOMAIN auth_map
            /\ auth_map[authcode[h]] = h

C9_Witness ==
    \E h \in Handshakes : InCallback(h) /\ hpc[h] = "remove"

\* C10: no handshake both sends 'Authentication timed out' and authenticates.
C10_OneOutcome ==
    \A h \in Handshakes : ~(hlog[h].timed_out > 0 /\ hlog[h].authed > 0)

\* the registry holds no entry whose callback belongs to handshake h
NoEntryOf(h) == \A c \in DOMAIN auth_map : auth_map[c] # h

\* C11: a handshake that registered a challenge and has terminated - authenticated,
\* timed out, or by an error raised inside run_ - has unregistered exactly once, and no
\* entry of it is left in the registry.
C11_TerminatedIsUnregistered ==
    \A h \in Handshakes :
        hpc[h] = "done" =>
            /\ hlog[h].removed = 1
            /\ NoEntryOf(h)

\* C12: an 'auth <code>' message carrying the code of a challenge whose window has not
\* elapsed and that is not yet authenticated invokes that challenge's callback, which
\* sets name_map[requester id] to the responder's name (the nick, or the name given
\* after the code) and sends the success message on IRC and to the requesting chat.
C12_ResolveInTimeAuthenticates ==
    [][/\ \A h \in Handshakes :
            (/\ ipc = "auth"
             /\ ipc' # "auth"
             /\ args(chanmsg.words) # <<>>
             /\ hpc[h] \in Registered
             /\ authcode[h] = args(chanmsg.words)[1]
             /\ now < start_time[h] + AuthTimeout)
            => (ipc' = "callback" /\ cb' = h)
       /\ (ipc = "callback" /\ ipc' # "callback" /\ ~authenticated[cb])
            => /\ message[cb].sender \in DOMAIN name_map'
               /\ name_map'[message[cb].sender] =
                      (IF Len(chanmsg.words) > 3 THEN chanmsg.words[4] ELSE chanmsg.nick)
               /\ Len(irc_out') = 1
               /\ irc_out'[1].text = "Authentication successful."
               /\ hlog'[cb].irc_ok = hlog[cb].irc_ok + 1
               /\ hlog'[cb].authed = hlog[cb].authed + 1]_vars

C12_Witness ==
    \E h \in Handshakes :
        /\ hpc[h] = "done"
        /\ message[h].sender = 2
        /\ hlog[h].timed_out = 0
        /\ hlog[h].authed = 1
        /\ hlog[h].irc_ok = 1
        /\ 2 \in DOMAIN name_map
        /\ name_map[2] = "bob"

\* C13: a challenge that no IRC message carrying its code reached within auth_timeout
\* (under SpecAuthLate none does) sends 'Authentication timed out' exactly once, never
\* writes name_map, and when its unit has terminated no entry of it is in the registry.
C13_TimedOutLeavesNoTrace ==
    \A h \in Handshakes :
        hlog[h].timed_out > 0 =>
            /\ hlog[h].timed_out = 1
            /\ hlog[h].written = 0
            /\ hpc[h] = "done" => NoEntryOf(h)

\* C14: do_authentication is idempotent: an invocation for a challenge that has
\* authenticated already changes neither name_map nor the flag and sends nothing on
\* IRC or to the chat; it is only counted as an invocation.
C14_SecondResolveIsNoOp ==
    [][(ipc = "callback" /\ ipc' # "callback" /\ hlog[cb].authed > 0)
       => /\ name_map' = name_map
          /\ irc_out' = irc_out
          /\ authenticated' = authenticated
          /\ hlog' = [hlog EXCEPT ![cb].invoked = @ + 1]
          /\ ipc' = "idle"]_vars

C14_Witness ==
    \E h \in Handshakes :
        /\ ipc = "idle"
        /\ cb = h
        /\ hlog[h].invoked = 2
        /\ Len(chanmsg.words) > 3
        /\ name_map[message[h].sender] = "bob"

\* C15: remove_auth_callback of a code that is not in the registry is a no-op: no call
\* of it raises an error.
C15_UnregisterAbsentIsNoOp ==
    \A h \in Handshakes : hlog[h].raised = NoneV

\* the replies with which a run reports a failed step
Failures == {"err_file_info", "err_download", "err_upload", "oops"}

Failed(log) ==
    \E k \in 1..Len(log) : log[k].text \in Failures \/ log[k].ev = "IntegrityError"

\* the run of unit u is the first to handle its file: no record of it was found, and
\* without a database no event came before
FirstRun(u) == db_img[u] = NoImg /\ (conf.database \/ runs = 1)

\* C16: a finished run for an authorized sender, the first for its file, in which no
\* step failed has performed, in this order: download, upload, one announcement
\* '<name> url' (plus the caption if any), one reply 'Image delivered. Uploaded to: url'
\* to the event's message; the record is persisted with finished = true.
C16_SuccessfulRun ==
    \A u \in PUnits :
        (/\ ppc[u] = "done"
         /\ event[u].c_id \notin blacklist
         /\ event[u].c_id \in DOMAIN name_map
         /\ FirstRun(u)
         /\ ~Failed(plog[u]))
        => LET f == event[u].f_id
               url == Link(OutFile(FilePath(f)))
               line == "<" \o name_map[event[u].c_id] \o "> " \o url
                       \o (IF event[u].caption = NoneV THEN "" ELSE " " \o event[u].caption)
           IN /\ plog[u] =
                    <<Ev("chat_action", NoneV, 0, 0), Ev("get_file", NoneV, 0, 0),
                      Ev("download", NoneV, 0, 0), Ev("upload", NoneV, 0, 0),
                      Ev("announce", line, 0, 0),
                      Ev("reply", "Image delivered. Uploaded to: " \o url,
                         event[u].c_id, event[u].m_id)>>
                    \o (IF conf.delete_images THEN <<Ev("remove", NoneV, 0, 0)>> ELSE <<>>)
                    \o (IF conf.database THEN <<Ev("insert", NoneV, 0, 0)>> ELSE <<>>)
              /\ conf.database =>
                    /\ f \in DOMAIN images
                    /\ images[f].finished
                    /\ images[f].url = url
                    /\ images[f] = img[u]

C16_Witness ==
    \E u \in PUnits :
        /\ ppc[u] = "done"
        /\ FirstRun(u)
        /\ conf.database
        /\ event[u].caption # NoneV
        /\ Has(plog[u], {"announce"})
        /\ ~Failed(plog[u])
        /\ event[u].f_id \in DOMAIN images
        /\ images[event[u].f_id].finished

HasReply(log, text) == \E k \in 1..Len(log) : log[k].ev = "reply" /\ log[k].text = text

\* the run of unit u resumes a record that was downloaded but not uploaded, and the
\* local file is on disk
Retry(u) ==
    /\ db_img[u] # NoImg
    /\ db_img[u].url = NoneV
    /\ db_img[u].local_path \in disk

\* C17: a run whose upload fails with an ImgurClientError has replied the error text
\* (to the event's chat, unless it resumed a record of another chat), has announced
\* nothing, and ends with the record persisted with url null and finished false; a later
\* run for the same file_id that finds this record and the local file skips the
\* download and attempts the upload.
C17_UploadFailureIsRetried ==
    /\ [](\A u \in PUnits :
            (ppc[u] = "done" /\ HasReply(plog[u], "err_upload")) =>
                /\ ~Has(plog[u], {"announce"})
                /\ ~HasReply(plog[u], "Image delivered. Uploaded to: " \o Link(img[u].local_path))
                /\ (db_img[u] = NoImg \/ db_img[u].c_id = event[u].c_id) =>
                      \A k \in 1..Len(plog[u]) :
                          plog[u][k].ev = "reply" => plog[u][k].c = event[u].c_id
                /\ conf.database =>
                      /\ event[u].f_id \in DOMAIN images
                      /\ images[event[u].f_id].url = NoneV
                      /\ ~images[event[u].f_id].finished
                      /\ images[event[u].f_id].local_path \in disk)
    /\ [][\A u \in PUnits :
            /\ (ppc[u] = "download" /\ ppc'[u] # "download" /\ Retry(u))
                 => (ppc'[u] = "upload" /\ plog'[u] = plog[u] /\ img'[u] = img[u])
            /\ (ppc[u] = "upload" /\ ppc'[u] # "upload" /\ Retry(u))
                 => (/\ Len(plog'[u]) > Len(plog[u])
                     /\ plog'[u][Len(plog[u]) + 1].ev = "upload")]_vars

C17_Witness ==
    \E u \in PUnits :
        /\ ppc[u] = "done"
        /\ db_img[u] # NoImg
        /\ db_img[u].url = NoneV
        /\ db_img[u].local_path # NoneV
        /\ Has(plog[u], {"upload"})
        /\ ~Has(plog[u], {"get_file", "download"})
        /\ images[event[u].f_id].finished

\* C18: a run whose metadata fetch or file transfer failed has replied the error text,
\* has attempted no upload, announced nothing and confirmed nothing, and leaves the
\* persisted record of its file with finished = false, among get_unfinished_images.
C18_DownloadFailureLeavesUnfinished ==
    \A u \in PUnits :
        (ppc[u] = "done"
         /\ (HasReply(plog[u], "err_file_info") \/ HasReply(plog[u], "err_download"))) =>
            /\ ~Has(plog[u], {"upload", "announce"})
            /\ \A k \in 1..Len(plog[u]) :
                   plog[u][k].ev = "reply" => plog[u][k].text \in {"err_file_info", "err_download"}
            /\ conf.database =>
                  /\ img[u].f_id \in DOMAIN images
                  /\ ~images[img[u].f_id].finished
                  /\ images[img[u].f_id] \in get_unfinished_images

\* C19: with a database configured, every run that passed the authorization tests ends
\* - after success, a failed download, a failed upload or an exception in between -
\* with the row of its file_id holding the remote_path, local_path, url and finished of
\* the run's final working record.
C19_PersistedEqualsWorkingRecord ==
    \A u \in PUnits :
        (/\ ppc[u] = "done"
         /\ conf.database
         /\ event[u].c_id \notin blacklist
         /\ event[u].c_id \in DOMAIN name_map)
        => /\ event[u].f_id \in DOMAIN images
           /\ images[event[u].f_id].f_id = event[u].f_id
           /\ images[event[u].f_id].remote_path = img[u].remote_path
           /\ images[event[u].f_id].local_path = img[u].local_path
           /\ images[event[u].f_id].url = img[u].url
           /\ images[event[u].f_id].finished = img[u].finished

C19_Witness ==
    \E u \in PUnits :
        /\ ppc[u] = "done"
        /\ conf.database
        /\ HasReply(plog[u], "oops")
        /\ ~HasReply(plog[u], "err_upload")
        /\ Has(plog[u], {"download"})
        /\ Has(plog[u], {"update"})

\* C20: no step un-sets a persisted field: a row stays, url and remote_path do not go
\* from a value to null, finished does not go from true to false; local_path goes from a
\* value to null only in the finally clause of a run that marked the record finished
\* and removed the local file under delete_images.
C20_PersistedFieldsOnlyGained ==
    [][\A f \in DOMAIN images :
          /\ f \in DOMAIN images'
          /\ images[f].url # NoneV => images'[f].url # NoneV
          /\ images[f].remote_path # NoneV => images'[f].remote_path # NoneV
          /\ images[f].finished => images'[f].finished
          /\ (images[f].local_path # NoneV /\ images'[f].local_path = NoneV) =>
                /\ conf.delete_images
                /\ images'[f].finished
                /\ \E u \in PUnits :
                      ppc[u] = "finally" /\ img[u].f_id = f /\ Has(plog[u], {"remove"})]_vars

C20_Witness ==
    \E u \in PUnits :
        /\ ppc[u] = "done"
        /\ db_img[u] # NoImg
        /\ db_img[u].local_path # NoneV
        /\ images[db_img[u].f_id].local_path = NoneV
        /\ Has(plog[u], {"update"})

\* C21: a persisted record's local_path is null until the download has completed: every
\* non-null local_path in the table names a file that was downloaded to disk, and a run
\* whose file transfer failed ends with the record of its file persisted with
\* local_path null.
C21_LocalPathNamesDownloadedFile ==
    /\ \A f \in DOMAIN images :
          images[f].local_path # NoneV => images[f].local_path \in disk
    /\ \A u \in PUnits :
          (ppc[u] = "done" /\ conf.database /\ HasReply(plog[u], "err_download")) =>
              /\ img[u].f_id \in DOMAIN images
              /\ images[img[u].f_id].local_path = NoneV

\* C22: a run sets finished only after it has posted the IRC announcement and its
\* reply 'Image delivered. Uploaded to: url' has been sent; a run whose delivery reply
\* was not sent ends with the record of its file persisted with finished = false.
C22_FinishedOnlyAfterAcknowledgment ==
    \A u \in PUnits :
        /\ (ppc[u] \in {"finally", "done"} /\ img[u].finished /\ ~db_img[u].finished) =>
              /\ Has(plog[u], {"announce"})
              /\ HasReply(plog[u], "Image delivered. Uploaded to: " \o img[u].url)
        /\ (ppc[u] = "done" /\ conf.database /\ ~db_img[u].finished
              /\ Has(plog[u], {"send_failed"})) =>
              /\ img[u].f_id \in DOMAIN images
              /\ ~images[img[u].f_id].finished

\* C23: in every run, fresh or resumed, the stages come in sequence: when the upload is
\* about to be attempted the local file is on disk, when the announcement is about to
\* be posted the url is set, and a reply 'Image delivered' stands in the run's log only
\* after its announcement, which stands after the upload and the download, if any.
C23_StagesInSequence ==
    \A u \in PUnits :
        /\ (ppc[u] = "upload" /\ needs_upload(img[u])) => img[u].local_path \in disk
        /\ ppc[u] = "announce" => img[u].url # NoneV
        /\ ppc[u] = "finish" => Has(plog[u], {"announce"})
        /\ \A k \in 1..Len(plog[u]) :
              /\ (plog[u][k].ev = "reply" /\ plog[u][k].text \notin Failures \cup {"need_auth"})
                    => \E j \in 1..(k - 1) : plog[u][j].ev = "announce"
              /\ plog[u][k].ev \in {"get_file", "download"}
                    => \A j \in 1..(k - 1) : plog[u][j].ev \notin {"upload", "announce"}
              /\ plog[u][k].ev = "upload"
                    => \A j \in 1..(k - 1) : plog[u][j].ev # "announce"

C23_Witness ==
    \E u \in PUnits :
        /\ ppc[u] = "done"
        /\ db_img[u] # NoImg
        /\ db_img[u].url # NoneV
        /\ Has(plog[u], {"download"})
        /\ ~Has(plog[u], {"upload"})
        /\ Has(plog[u], {"announce"})
        /\ HasReply(plog[u], "Image delivered. Uploaded to: " \o img[u].url)

\* C26: a run for a sender who is not blacklisted that ends without having announced
\* the image has sent at least one reply to the chat and message of its event.
C26_FailureIsReplied ==
    \A u \in PUnits :
        (ppc[u] = "done" /\ event[u].c_id \notin blacklist /\ ~Has(plog[u], {"announce"})) =>
            \E k \in 1..Len(plog[u]) :
                /\ plog[u][k].ev = "reply"
                /\ plog[u][k].c = event[u].c_id
                /\ plog[u][k].m = event[u].m_id

\* C27: an exception raised inside a handshake unit ends that unit and goes no
\* further: no exception passes through on_msg_command in the IRC thread, also when
\* do_authentication raises while a channel message is resolving its challenge.
C27_ErrorsStayInsideUnit ==
    /\ \A k \in 1..Len(irc_out) : irc_out[k].text # "Exception"
    /\ \A h \in Handshakes : hlog[h].raised # NoneV => hpc[h] = "done"

\* ------------------------------------------------------------------ claims on the identity store
\* C28: the first access to the UserDatabase after a restart loads, without raising,
\* the name_map (integer ids to names) and the blacklist the process held in memory
\* before the restart.
C28_ReloadYieldsSameIdentities ==
    (ulog.restarts > 0 /\ ulog.calls = 1 /\ ulog.op = "name_map") =>
        /\ ulog.raised = NoneV
        /\ ucached
        /\ name_map = ulog.before.name_map
        /\ blacklist = ulog.before.blacklist

\* C29: a call of add_to_blacklist(id) returns with id in the blacklist, a call of
\* remove_from_blacklist(id) with id not in it, both with name_map as it was; a call
\* of add_to_name_map leaves the blacklist as it was.
C29_BlacklistMembership ==
    [][ulog'.calls = ulog.calls + 1 =>
          /\ ulog'.op = "add_to_blacklist" =>
                (ulog'.raised = NoneV /\ ulog'.id \in blacklist' /\ name_map' = name_map)
          /\ ulog'.op = "remove_from_blacklist" =>
                (ulog'.raised = NoneV /\ ulog'.id \notin blacklist' /\ name_map' = name_map)
          /\ ulog'.op = "add_to_name_map" => blacklist' = blacklist]_vars

\* ------------------------------------------------------------------ claims on the startup
Running(u) == ppc[u] \notin {"idle", "done"}

\* C24: while main goes through the backlog at most one pipeline unit is running, none
\* is running when main starts the unit of the next record, and none is running when
\* main enters the poll loop (before the loop has dispatched an update).
C24_BacklogReplayIsSequential ==
    /\ mpc \in {"backlog", "join"} => Cardinality({u \in MainUnits : Running(u)}) <= 1
    /\ mpc = "backlog" => \A u \in MainUnits : ~Running(u)
    /\ (mpc = "poll_loop" /\ Polled = 0) => \A u \in MainUnits : ~Running(u)
    /\ mpc \notin {"backlog", "join", "poll_loop"} => \A u \in MainUnits : ppc[u] = "idle"

C24_Witness ==
    /\ mpc = "join"
    /\ Len(replayed) = 2
    /\ \E u \in MainUnits : Running(u) /\ event[u].f_id = replayed[2]
    /\ \E u \in MainUnits : ppc[u] = "done" /\ event[u].f_id = replayed[1]

\* C25: the backlog main scans at startup holds every row with finished = false once
\* and no row with finished = true; main starts one unit per entry, in order, with the
\* persisted record as its image, and has started one for each entry when it enters the
\* poll loop.
C25_UnfinishedResubmittedOnce ==
    /\ [](/\ Len(replayed) <= Len(backlog)
          /\ \A k \in 1..Len(replayed) : replayed[k] = backlog[k].f_id
          /\ \A j, k \in 1..Len(backlog) : j # k => backlog[j].f_id # backlog[k].f_id
          /\ mpc = "poll_loop" => Len(replayed) = Len(backlog)
          /\ mpc \in {"verify_config", "irc_start", "wait_connected", "if_connected", "scan"}
                => (backlog = <<>> /\ \A u \in MainUnits : ppc[u] = "idle"))
    /\ [][/\ (mpc = "scan" /\ mpc' # "scan" /\ conf.database) =>
                /\ {backlog'[k] : k \in 1..Len(backlog')}
                      = {images[f] : f \in {g \in DOMAIN images : ~images[g].finished}}
                /\ \A k \in 1..Len(backlog') : ~backlog'[k].finished
          /\ (mpc = "backlog" /\ mpc' # "backlog") =>
                /\ Len(replayed') = Len(replayed) + 1
                /\ \E u \in MainUnits :
                      /\ ~Running(u)
                      /\ ppc'[u] = "authorize"
                      /\ event'[u] = backlog[Len(replayed) + 1]
                      /\ img'[u] = backlog[Len(replayed) + 1]
          /\ mpc # "backlog" => replayed' = replayed]_vars

C25_Witness ==
    /\ mpc = "poll_loop"
    /\ Len(replayed) = 1
    /\ \E f \in DOMAIN images : images[f].finished /\ f # replayed[1]
    /\ \E u \in MainUnits : ppc[u] = "done" /\ event[u] = images[replayed[1]]

\* the keys without which the proxy cannot work
RequiredKeys == {"telegram.token", "imgur.client_id", "imgur.client_secret",
                 "imgur.refresh_token", "irc.host", "irc.channel"}

NoUnitSpawned ==
    /\ \A u \in MainUnits : ppc[u] = "idle"
    /\ \A h \in Handshakes : hpc[h] = "idle"
    /\ runs = 0
    /\ replayed = <<>>

C31_HandshakeTerminates ==
    /\ \A h \in Handshakes : (hpc[h] # "idle") ~> (hpc[h] = "done")
    /\ [][\A h \in Handshakes :
            /\ (hpc[h] = "while" /\ hpc'[h] # "while" /\ now >= start_time[h] + AuthTimeout)
                  => hpc'[h] = "else"
            /\ (hpc[h] = "if_authenticated" /\ hpc'[h] = "remove") => authenticated[h]]_vars

C31_Witness ==
    /\ hpc["h1"] = "done"
    /\ hpc["h2"] = "done"
    /\ hlog["h1"].timed_out = 1
    /\ hlog["h2"].authed = 1
    /\ now > MaxTime

\* ------------------------------------------------------------------ claims on the poll loop
MaxOf(S) == CHOOSE i \in S : \A j \in S : j <= i

\* C32: the poll offset never decreases; whenever updates have been handled it is the
\* largest update_id handled so far plus one, so that no handled update is in a later
\* response; a transport error leaves it unchanged
C32_OffsetAdvances ==
    /\ [](/\ (handled = {}) <=> (offset = <<>>)
          /\ handled # {} => offset = <<MaxOf(handled) + 1>>
          /\ \A i \in 1..Len(batch) : batch[i] \notin handled)
    /\ [][/\ offset # <<>> => (offset' # <<>> /\ offset'[1] >= offset[1])
          /\ (polls' # polls /\ polls'.outcome = "on_error") => offset' = offset]_vars

C32_Witness ==
    /\ polls.n = MaxPolls
    /\ polls.outcome = "on_error"
    /\ polls.offset = <<4>>
    /\ handled = {1, 3}
    /\ batch = <<>>

Ran(func) == \E i \in 1..Len(text_out.ran) : text_out.ran[i] = func

\* C36: the handler of the admin-only command /blacklist is run when, and only when,
\* the sender's id is in telegram.admin; any other sender gets the refusal and the
\* handler is not run
C36_AdminOnlyCommand ==
    (text_out.kind = "text" /\ is_command(text_out.text)
        /\ Head(text_out.text.words) = "blacklist")
    => /\ Ran("cmd_blacklist") <=> is_admin(text_out.sender)
       /\ ~is_admin(text_out.sender)
            => text_out.replies = <<"You must be an admin to use this command.">>

\* ------------------------------------------------------------------ claims on the channel messages
Answered(text) == \E i \in 1..Len(irc_out) : irc_out[i].text = text

\* C33: every channel message directed at the bot gives exactly one of an invocation
\* of the callback registered for its code, the reply 'Auth code invalid', the reply
\* 'Unknown command'; handling it never raises
C33_OneOutcomePerMessage ==
    (msgs > 0 /\ ipc = "idle")
    => /\ ~Answered("ValueError")
       /\ ~Answered("IndexError")
       /\ \/ cb # NoneV /\ ~Answered("Auth code invalid") /\ ~Answered("Unknown command")
          \/ cb = NoneV /\ Answered("Auth code invalid") /\ ~Answered("Unknown command")
          \/ cb = NoneV /\ ~Answered("Auth code invalid") /\ Answered("Unknown command")

\* C34: the name a successful resolve stores in name_map is the display name the
\* auth message carries after the code, and the responder's nick when it carries none
C34_StoredName ==
    [][name_map' # name_map
        => /\ ipc = "callback"
           /\ name_map'[message[cb].sender] =
                 IF Len(chanmsg.words) >= 4 THEN chanmsg.words[4] ELSE chanmsg.nick]_vars

C34_Witness ==
    /\ \E c \in DOMAIN name_map : name_map[c] \in AltNames
    /\ \E c \in DOMAIN name_map : name_map[c] \in Nicks
    /\ ipc = "idle"

\* C35: a successful handshake of a chat user who has a name_map entry already puts
\* the new name in that entry's place, and changes no other entry of name_map and
\* not the blacklist
C35_ReplacesOwnEntry ==
    [][(ipc = "callback" /\ ipc' = "set_authenticated"
            /\ message[cb].sender \in DOMAIN name_map)
        => /\ DOMAIN name_map' = DOMAIN name_map
           /\ name_map'[message[cb].sender] = irc_out'[1].nick
           /\ \A c \in DOMAIN name_map \ {message[cb].sender} : name_map'[c] = name_map[c]
           /\ blacklist' = blacklist
           /\ ufile'.blacklist = ufile.blacklist]_vars

C35_Witness ==
    /\ DOMAIN name_map = {1, 2}
    /\ name_map[1] \in AltNames
    /\ name_map[2] \in Nicks
    /\ hlog["h1"].written = 1
    /\ hlog["h2"].written = 1
    /\ message["h1"].sender = 2
    /\ message["h2"].sender = 1
    /\ authenticated["h1"]
    /\ ipc = "set_authenticated"
    /\ cb = "h2"

\* C40: handshakes that run at the same time do not interfere: an auth message
\* invokes the callback registered under the code it carries and writes name_map for
\* that handshake's requester only, and a handshake that registers or unregisters
\* its code leaves the registry entries of the others in place
C40_HandshakesIndependent ==
    [][/\ name_map' # name_map
            => /\ ipc = "callback"
               /\ chanmsg.words[3] \in DOMAIN auth_map
               /\ auth_map[chanmsg.words[3]] = cb
               /\ \A B \in Handshakes \ {cb} :
                     IF message[B].sender \in DOMAIN name_map
                     THEN name_map'[message[B].sender] = name_map[message[B].sender]
                     ELSE message[B].sender \notin DOMAIN name_map'
       /\ \A B \in Handshakes :
             hpc'[B] = hpc[B]
             => \A k \in DOMAIN auth_map :
                   auth_map[k] = B => (k \in DOMAIN auth_map' /\ auth_map'[k] = B)]_vars

C40_Witness ==
    /\ hlog["h1"].written = 1
    /\ hlog["h1"].removed = 1
    /\ hlog["h2"].written = 0
    /\ hpc["h2"] = "while"
    /\ \E k \in DOMAIN auth_map : auth_map[k] = "h2"

\* ------------------------------------------------------------------ claims on the handshake followed by images
\* C37: once a handshake requested in a chat has succeeded, an image event from that
\* chat, not blacklisted, passes the authorization step and is not answered with the
\* 'need to authenticate' reply, also when the chat's id is not the sender's id
C37_AuthorizedAfterHandshake ==
    \A u \in PUnits :
        (event[u] # NoImg /\ ppc[u] # "authorize")
        => \A i \in 1..Len(plog[u]) : plog[u][i].text # "need_auth"

\* ------------------------------------------------------------------ claims on the pipeline, continued
AnnouncementsFor(name) ==
    {"<" \o name \o "> " \o Link(OutFile(FilePath(f))) \o cap :
        f \in FileIds, cap \in {""} \cup {" " \o c : c \in Captions \ {NoneV}}}

\* C39: every reply of a run is addressed to the chat_id and message_id of the event
\* that started the run, and the IRC announcement names the sender authorized for
\* that run, also when the file's persisted record comes from another chat
C39_RepliesToOwnEvent ==
    \A u \in PUnits :
        \A i \in 1..Len(plog[u]) :
            /\ plog[u][i].ev = "reply"
                 => (plog[u][i].c = event[u].c_id /\ plog[u][i].m = event[u].m_id)
            /\ plog[u][i].ev = "announce"
                 => plog[u][i].text \in AnnouncementsFor(name_map[event[u].c_id])

\* C38: when two runs for the same file overlap, persisted progress is not lost: a
\* url or finished = true that one run wrote is still in the record when both have
\* ended, and no run's persistence step fails on a duplicate key
C38_ConcurrentRunsKeepProgress ==
    \A u \in MainUnits :
        /\ ~Has(plog[u], {"IntegrityError"})
        /\ (\A v \in MainUnits : ppc[v] = "done") /\ Has(plog[u], {"insert", "update"})
             => /\ img[u].url # NoneV => images["f1"].url # NoneV
                /\ img[u].finished => images["f1"].finished
====
